---- MODULE Spec2Model ----
(***************************************************************************)
(* A model of jeffriesd/p2p-meetings (package src/p2p_meetings):           *)
(*   - the central directory server     (central_server.py)                *)
(*   - the star and mesh overlay nodes  (p2p_nodes.py)                     *)
(*   - the message codec                (message_types.py)                 *)
(*   - the framing / listener primitive (socket_util.py)                   *)
(* Each subsystem has its own specification over its own variables; the    *)
(* variables of the other subsystems stay at their initial value.          *)
(***************************************************************************)
EXTENDS Integers, Sequences, FiniteSets, TLC

(***************************************************************************)
(* Program constants (constants.py, message_types.py).                     *)
(***************************************************************************)
DEFAULT_USERNAME == "default_user"
HOST_USERNAME == "HOST"
DEFAULT_P2P_PORT == 3100
MAX_WARNINGS == 3
TEST_MESSAGE == "test"
MSG_DELIM == ";"
LIST == "list"
JOIN == "join"
CREATE == "create"
STAR == "star"
MESH == "mesh"
MEETING_TYPES == {STAR, MESH}

(***************************************************************************)
(* Bounds of the model.                                                    *)
(***************************************************************************)
\* ports handed out over the life of the directory (one per CREATE, one per
\* mesh JOIN)
MaxPorts == 3

\* TCP connections accepted by the directory; each has one ListenThread
Conns == {"cA", "cB", "cC"}
\* usernames a JOIN frame may carry
JoinNames == {"alice", "bob", HOST_USERNAME, DEFAULT_USERNAME}
\* meeting ids a JOIN frame may carry (-1 is never allocated)
JoinIDs == {-1, 0}

None == "None"

VARIABLES
    \* ---- directory server (central_server.py, class Server) ----
    env,            \* the run's environment: clients, their frames, scheduling
    meetings,       \* Server.meetings: dict slots in insertion order
    uniqueID,       \* Server._unique_meetingID
    uniquePort,     \* Server._unique_meeting_port
    idLock,         \* Server._unique_meetingID_lock: holder or None
    portLock,       \* Server._unique_meeting_port_lock: holder or None
    sock,           \* state of each accepted client socket
    pc,             \* position of each connection's listener thread
    req,            \* the request a thread is handling
    loc,            \* a handler's local variables
    event,          \* what the last step did: the frame it ended, its sends
    issued          \* history: values handed out, names admitted

dirVars == <<env, meetings, uniqueID, uniquePort, idLock, portLock, sock,
             pc, req, loc, event, issued>>

VARIABLES
    \* ---- the clients' end of the directory's connections (client.py) ----
    inbox,          \* what the directory wrote on a socket, not yet received
    heard           \* history: a client's last receive, what its handler got

ctlVars == <<inbox, heard>>

VARIABLES
    \* ---- star host (p2p_nodes.py, class StarHostNode) ----
    senv,           \* the run's environment: what spokes send, scheduling
    peers,          \* StarHostNode.peers: dict slots in insertion order
    link,           \* the two ends of each spoke's connection to the host
    lt,             \* position of each spoke's ListenThread on the host
    sreq,           \* the P2PMessage a listener is handling
    sloc,           \* a handler's local variables
    sevent,         \* what the last step did: whose thread, its sends
    slog            \* history: offending texts received, private texts sent

starVars == <<senv, peers, link, lt, sreq, sloc, sevent, slog>>

VARIABLES
    \* ---- mesh meeting (p2p_nodes.py, MeshHostNode and MeshAudienceNode) ----
    menv,           \* the run's environment: who joins, scheduling
    mesh,           \* each node: its acceptor and its peer table
    wire            \* each TCP connection between two nodes, frames in flight

meshVars == <<menv, mesh, wire>>

VARIABLES
    \* ---- one message through encode and decode (message_types.py) ----
    cin,            \* the message kind and the constructor's arguments
    cphase,         \* how far the message has come
    cmsg,           \* the constructed message object
    cbytes,         \* what encode() made of it
    cdecoded        \* what decode_message made of the stripped bytes

codecVars == <<cin, cphase, cmsg, cbytes, cdecoded>>

VARIABLES
    \* ---- one ListenThread on one socket (socket_util.py) ----
    lenv,           \* the run's environment: the peer, the timer, the handler
    lsock,          \* the socket the thread listens on
    lpos,           \* where the thread is in listen_and_do
    keep_alive,     \* ListenThread.keep_alive
    expired,        \* whether the listener's time limit has passed
    inflight,       \* what is still to arrive of a frame cut in two
    message_strs,   \* the strings of the last receive not yet looked at
    lhist           \* history: receives, handler calls, on_close calls

listenVars == <<lenv, lsock, lpos, keep_alive, expired, inflight, message_strs,
                lhist>>

VARIABLES
    \* ---- the directory's sockets and its shutdown (central_server.py) ----
    kenv,                        \* the run's environment
    connection_socket,           \* Server.connection_socket
    keep_accepting_connections,  \* Server.keep_accepting_connections
    client_sockets,              \* Server.client_sockets, in order
    accepted,                    \* the socket accept() returned, not yet appended
    csock,                       \* the state of each client socket
    request_thread,              \* the listener of each client socket
    hosted,                      \* the client sockets of the entries of Server.meetings
    stop                         \* where stop_server is, and its loop index

stopVars == <<kenv, connection_socket, keep_accepting_connections, client_sockets,
              accepted, csock, request_thread, hosted, stop>>

VARIABLES
    \* ---- the per-peer operations of a HostNode (p2p_nodes.py) ----
    penv,       \* the run's environment: the peer identities in use
    ptable,     \* HostNode.peers
    pcall       \* the last operation called, and how it ended

opsVars == <<penv, ptable, pcall>>

VARIABLES
    \* ---- an acceptor thread and the operation that stops its component ----
    aenv,       \* the run's environment: the component, the connections
    apos,       \* where the thread of wait_for_connections is
    asock,      \* the listening socket
    aflag,      \* Server.keep_accepting_connections
    aclients,   \* the connections accepted, in order
    astop       \* where stop_server / remove_all_users is

accVars == <<aenv, apos, asock, aflag, aclients, astop>>

vars == <<dirVars, ctlVars, starVars, meshVars, codecVars, listenVars, stopVars,
          opsVars, accVars>>

\* the variables each subsystem leaves alone
nonDirVars == <<starVars, meshVars, codecVars, listenVars, stopVars, opsVars,
    accVars>>
nonStarVars == <<dirVars, ctlVars, meshVars, codecVars, listenVars, stopVars, opsVars,
    accVars>>
nonMeshVars == <<dirVars, ctlVars, starVars, codecVars, listenVars, stopVars, opsVars,
    accVars>>
nonCodecVars == <<dirVars, ctlVars, starVars, meshVars, listenVars, stopVars, opsVars,
    accVars>>
nonListenVars == <<dirVars, ctlVars, starVars, meshVars, codecVars, stopVars, opsVars,
    accVars>>
nonStopVars == <<dirVars, ctlVars, starVars, meshVars, codecVars, listenVars, opsVars,
    accVars>>
nonOpsVars == <<dirVars, ctlVars, starVars, meshVars, codecVars, listenVars, stopVars,
    accVars>>
nonAccVars == <<dirVars, ctlVars, starVars, meshVars, codecVars, listenVars, stopVars,
    opsVars>>

(***************************************************************************)
(*                        DIRECTORY  SERVER                                *)
(***************************************************************************)

\* ---- request frames, as MeetingRequest objects (message_types.py) ----
\* A frame is what json.loads and the MeetingRequest constructor leave of it:
\* its type, and inside data the meetingID (which may not be an int), the
\* username (which may be missing) and the meetingType.
Frame(t, m, isInt, hasU, u, mt) ==
    [type |-> t, mid |-> m, midIsInt |-> isInt, hasUser |-> hasU,
     user |-> u, mtype |-> mt]

ListRequest == Frame(LIST, 0, FALSE, FALSE, "", "")
JoinRequest(m, u) == Frame(JOIN, m, TRUE, TRUE, u, "")
CreateStarRequest == Frame(CREATE, 0, FALSE, FALSE, "", STAR)
CreateMeshRequest == Frame(CREATE, 0, FALSE, FALSE, "", MESH)

\* frames a client can put on the wire besides the four constructors:
\* a join whose data has no username, a join whose meetingID is a string,
\* a create with an unknown meetingType, an unknown request type
JoinNoUsername(m) == Frame(JOIN, m, TRUE, FALSE, "", "")
JoinStringID == Frame(JOIN, 0, FALSE, TRUE, "alice", "")
CreateRing == Frame(CREATE, 0, FALSE, FALSE, "", "ring")
BogusRequest == Frame("bogus", 0, FALSE, FALSE, "", "")

Frames ==
    {ListRequest, CreateStarRequest, CreateMeshRequest, JoinStringID,
     CreateRing, BogusRequest}
    \cup {JoinRequest(m, u) : m \in JoinIDs, u \in JoinNames}
    \cup {JoinNoUsername(m) : m \in JoinIDs}

\* MeetingRequest.is_valid
RequestIsValid(f) ==
    IF f.type = LIST THEN TRUE
    ELSE IF f.type = JOIN THEN f.midIsInt
    ELSE IF f.type = CREATE THEN f.mtype \in MEETING_TYPES
    ELSE FALSE

\* ---- responses (message_types.py) ----
NoData == [kind |-> None]
Response(t, ok, msg, d) == [type |-> t, success |-> ok, message |-> msg, data |-> d]
NoResponse == Response(None, FALSE, <<>>, NoData)

ListResponse(meeting_id_list) ==
    Response(LIST, TRUE, <<"Meetings found", Len(meeting_id_list)>>,
             [kind |-> "list", list |-> meeting_id_list])
JoinStarSuccess(host_addr_port, username) ==
    Response(JOIN, TRUE, <<"Join request successful">>,
             [kind |-> "join", host |-> host_addr_port, meetingType |-> STAR,
              username |-> username, listen_p2p_port |-> -1])
JoinMeshSuccess(host_addr_port, username, listen_p2p_port) ==
    Response(JOIN, TRUE, <<"Join request successful">>,
             [kind |-> "join", host |-> host_addr_port, meetingType |-> MESH,
              username |-> username, listen_p2p_port |-> listen_p2p_port])
\* a JoinFailure that reports success
JoinFailureSucceeding(error_msg) ==
    Response(JOIN, TRUE, <<"Join failed with error">> \o error_msg, NoData)
JoinFailure(error_msg) ==
    Response(JOIN, FALSE, <<"Join failed with error">> \o error_msg, NoData)
CreateStarSuccess(meetingID, listen_p2p_port) ==
    Response(CREATE, TRUE, <<"Create request successful">>,
             [kind |-> "create", meetingID |-> meetingID, meetingType |-> STAR,
              listen_p2p_port |-> listen_p2p_port])
CreateMeshSuccess(meetingID, listen_p2p_port) ==
    Response(CREATE, TRUE, <<"Create request successful">>,
             [kind |-> "create", meetingID |-> meetingID, meetingType |-> MESH,
              listen_p2p_port |-> listen_p2p_port])

UsernameTaken(u) == <<"Username already taken", u>>
MeetingNotFound(m) == <<"Meeting ID not found", m>>

\* ServerResponse.is_valid, on a response built by one of the constructors
ResponseIsValid(r) ==
    IF r.type = LIST THEN r.data.kind = "list"
    ELSE r.type \in {JOIN, CREATE}

\* ---- the registry: Server.meetings, a dict in insertion order ----
\* A slot is a MeetingEntry object; "live" is false once the key was deleted
\* (the object itself outlives the key while a handler still refers to it).
\* an entry whose set of usernames starts empty
UnseededEntry(id, mt, client_socket, addr_port) ==
    [id |-> id, mtype |-> mt, sock |-> client_socket, host |-> addr_port,
     usernames |-> {}, live |-> TRUE]
MeetingEntry(id, mt, client_socket, addr_port) ==
    [id |-> id, mtype |-> mt, sock |-> client_socket, host |-> addr_port,
     usernames |-> {HOST_USERNAME}, live |-> TRUE]

LiveSlots(ms) == {i \in 1..Len(ms) : ms[i].live}
SlotsOf(ms, id) == {i \in LiveSlots(ms) : ms[i].id = id}
\* meetingID in self.meetings
HasMeeting(ms, id) == SlotsOf(ms, id) # {}
SlotOf(ms, id) == CHOOSE i \in SlotsOf(ms, id) : TRUE

\* a has_username that forgets every claimed name
forgets_username(entry, name) == FALSE

\* MeetingEntry.has_username
has_username(entry, name) == name \in entry.usernames

\* ---- local variables of handle_request / get_listing ----
\* (failing and probed are not variables of the code: failing remembers the
\* sockets on which sends already failed when the frame arrived, probed the
\* meetingIDs probed so far, each with whether its two sends succeeded)
NoLocals ==
    [uid |-> -1, port |-> -1, pos |-> 1, used |-> 0, to_delete |-> <<>>,
     meeting_list |-> <<>>, entry |-> 0, response |-> NoResponse,
     failing |-> {}, probed |-> <<>>]

\* a payload written on a client socket: the liveness probe's test data, or
\* an encoded response
ProbePayload(s) == [to |-> s, kind |-> "probe", response |-> NoResponse]
ResponsePayload(s, r) == [to |-> s, kind |-> "response", response |-> r]

\* what a step did: kind is "step" (a handler moved on), "dropped" (a frame
\* failed validation), "raised" (the handler raised and the listener caught
\* it) or "answered" (the handler returned after send_response); sends are
\* the payloads the step wrote
Event(c, kind, sends) == [conn |-> c, kind |-> kind, sends |-> sends]
NoEvent == Event(None, "step", <<>>)


\* what a client's listener made of its last receive: the payloads it read
\* and the responses it gave to Client.handle_response
NoReceive == [chunk |-> <<>>, handled |-> <<>>]

\* the clients whose listener is followed, with nothing written to them yet
InitCtl(listening) ==
    /\ inbox = [c \in listening |-> <<>>]
    /\ heard = [c \in listening |-> NoReceive]

\* An environment of the directory: the connections that clients open, the
\* frames they send, whether they ever close a connection, and whether a
\* frame may arrive while the handler of another connection is in progress.
Environment(conns, frames, closes, overlap) ==
    [conns |-> conns, frames |-> frames, closes |-> closes, overlap |-> overlap]

\* history: the values new_meetingID and new_meeting_port returned, in the
\* order of their returns; the listen ports sent to mesh joiners; the
\* (meetingID, username) pairs of the JOINs answered with success
NoneIssued == [ids |-> <<>>, ports |-> <<>>, handed |-> <<>>, joined |-> {}]

InitDir(e) ==
    /\ env = e
    /\ meetings = <<>>
    /\ uniqueID = 0
    /\ uniquePort = DEFAULT_P2P_PORT
    /\ idLock = None
    /\ portLock = None
    /\ sock = [c \in Conns |-> "open"]
    /\ pc = [c \in Conns |-> "idle"]
    /\ req = [c \in Conns |-> ListRequest]
    /\ loc = [c \in Conns |-> NoLocals]
    /\ event = NoEvent
    /\ issued = NoneIssued


\* ---- sockets ----
\* "open": both ends open.  "peerClosed": the client has closed its end and
\* the server has not yet seen a send fail.  "dead": sends raise (the reset
\* has arrived, or the server itself shut the socket down).
\* a send that never raises
SendNeverRaises(st) == {TRUE}
\* socket.send on a socket in state st may end in these ways:
SendOutcomes(st) ==
    IF st = "open" THEN {TRUE}
    ELSE IF st = "dead" THEN {FALSE}
    ELSE {TRUE, FALSE}
\* a send on a socket whose peer is gone provokes the reset
AfterSend(st) == IF st = "open" THEN "open" ELSE "dead"

\* ---- the two locks ----
\* a lock that lets every thread pass
LockLetsAllPass(lock) == TRUE
\* threading.Lock.__enter__: a thread passes only while nobody holds the lock
LockIsFree(lock) == lock = None

\* ---- scheduling of the connection threads ----
OthersIdle(c) == \A d \in Conns \ {c} : pc[d] = "idle"
PortsPending ==
    Cardinality({d \in Conns : pc[d] \in
        {"join_look", "join_check", "join_add", "id_acq", "id_inc",
         "port_acq", "port_inc"}})

\* the handler of connection c ends and its listener thread goes back to
\* recv: how is "raised" (ListenThread.listen_and_do caught an exception of
\* the handler) or "answered" (it returned after send_response)
Finish(c, how, sends) ==
    /\ pc' = [pc EXCEPT ![c] = "idle"]
    /\ req' = [req EXCEPT ![c] = ListRequest]
    /\ loc' = [loc EXCEPT ![c] = NoLocals]
    /\ event' = Event(c, how, sends)

\* the handler moves on to its next statement
Goto(c, label) ==
    /\ pc' = [pc EXCEPT ![c] = label]
    /\ req' = req

\* ---- what the directory writes, as the clients followed get it ----
\* payloads a socket holds before a send on it blocks
MaxUnread == 2
\* the payloads of a step, added to what each socket still holds
Written(boxes, sends) ==
    [c \in DOMAIN boxes |->
        boxes[c] \o SelectSeq(sends, LAMBDA payload : payload.to = c)]
\* socket.send: the payloads of the step go into the sockets
Delivered ==
    /\ inbox' = Written(inbox, event'.sends)
    /\ \A c \in DOMAIN inbox : Len(inbox'[c]) <= MaxUnread
    /\ heard' = heard

\* ListenThread.listen_and_do on the directory: one frame is received, parsed,
\* validated, and (when valid) handed to Server.handle_request, which
\* dispatches on its type
Receive(c, f) ==
    /\ pc[c] = "idle"
    /\ sock[c] = "open"
    /\ c \in env.conns
    /\ f \in env.frames
    /\ env.overlap \/ OthersIdle(c)
    /\ (RequestIsValid(f) /\ f.type \in {JOIN, CREATE})
          => (uniquePort - DEFAULT_P2P_PORT) + PortsPending < MaxPorts
    /\ IF ~RequestIsValid(f)
       THEN /\ event' = Event(c, "dropped", <<>>)
            /\ UNCHANGED <<pc, req, loc>>
       ELSE /\ event' = NoEvent
            /\ req' = [req EXCEPT ![c] = f]
            /\ loc' = [loc EXCEPT ![c] =
                         [NoLocals EXCEPT
                             !.used = Cardinality(LiveSlots(meetings)),
                             !.failing = {s \in Conns : sock[s] = "dead"}]]
            /\ pc' = [pc EXCEPT ![c] =
                         IF f.type = LIST THEN "list_scan"
                         ELSE IF f.type = JOIN THEN "join_look"
                         ELSE "id_acq"]
    /\ UNCHANGED <<nonDirVars, env, meetings, uniqueID, uniquePort, idLock, portLock,
                   sock, issued>>
    /\ Delivered

Min(S) == CHOOSE x \in S : \A y \in S : x <= y

\* ---- LIST: Server.get_listing ----
\* the size the dict iterator of handler c compares with: taken when the
\* loop starts, i.e. at its first turn
SizeAtLoopStart(c) ==
    IF loc[c].pos = 1 THEN Cardinality(LiveSlots(meetings)) ELSE loc[c].used

\* One turn of "for meetingID in self.meetings": the dict iterator raises
\* RuntimeError when the dict's size differs from the size at the start of the
\* loop; otherwise the next live slot is probed with two sends of TEST_MESSAGE.
ListScan(c) ==
    /\ pc[c] = "list_scan"
    /\ LET l == loc[c]
           rest == {i \in LiveSlots(meetings) : i >= l.pos}
       IN IF Cardinality(LiveSlots(meetings)) # SizeAtLoopStart(c)
          THEN /\ Finish(c, "raised", <<>>)
               /\ sock' = sock
          ELSE IF rest = {}
          THEN \* the loop is over; with nothing to delete the listing is returned
               /\ IF l.to_delete = <<>>
                  THEN /\ loc' = [loc EXCEPT ![c].response = ListResponse(l.meeting_list)]
                       /\ Goto(c, "respond")
                  ELSE /\ loc' = loc
                       /\ Goto(c, "list_del")
               /\ event' = NoEvent
               /\ sock' = sock
          ELSE LET i == Min(rest)
                   e == meetings[i]
               IN \E ok \in SendOutcomes(sock[e.sock]) :
                     /\ sock' = [sock EXCEPT ![e.sock] = AfterSend(@)]
                     /\ event' = Event(c, "step",
                                   IF sock[e.sock] = "dead" THEN <<>>
                                   ELSE <<ProbePayload(e.sock)>>)
                     /\ loc' = [loc EXCEPT
                                  ![c].pos = i + 1,
                                  ![c].used = SizeAtLoopStart(c),
                                  ![c].probed = Append(@, <<e.id, ok>>),
                                  ![c].meeting_list =
                                      IF ok THEN Append(@, <<e.id, e.mtype>>) ELSE @,
                                  ![c].to_delete =
                                      IF ok THEN @ ELSE Append(@, e.id)]
                     /\ UNCHANGED <<pc, req>>
    /\ UNCHANGED <<nonDirVars, env, meetings, uniqueID, uniquePort, idLock, portLock,
                   issued>>
    /\ Delivered

\* a delete_meeting_entry that leaves the key in the registry
NotDeletedFrom(ms, id) == ms
\* a delete_meeting_entry that empties the registry
EveryEntryDeletedFrom(ms, id) == [i \in 1..Len(ms) |-> [ms[i] EXCEPT !.live = FALSE]]
\* Server.delete_meeting_entry on a registry ms: the host socket is shut down
\* and the key deleted, when the key is (still) there
DeletedFrom(ms, id) ==
    IF HasMeeting(ms, id) THEN [ms EXCEPT ![SlotOf(ms, id)].live = FALSE] ELSE ms

\* One turn of "for meetingID in to_delete"; after the last one the listing
\* is returned
ListDelete(c) ==
    /\ pc[c] = "list_del"
    /\ LET l == loc[c]
           id == Head(l.to_delete)
       IN /\ meetings' = DeletedFrom(meetings, id)
          /\ sock' = IF HasMeeting(meetings, id)
                     THEN [sock EXCEPT ![meetings[SlotOf(meetings, id)].sock] = "dead"]
                     ELSE sock
          /\ loc' = [loc EXCEPT
                       ![c].to_delete = Tail(@),
                       ![c].response =
                           IF Tail(l.to_delete) = <<>>
                           THEN ListResponse(l.meeting_list) ELSE @]
          /\ Goto(c, IF Tail(l.to_delete) = <<>> THEN "respond" ELSE "list_del")
    /\ event' = NoEvent
    /\ UNCHANGED <<nonDirVars, env, uniqueID, uniquePort, idLock, portLock, issued>>
    /\ Delivered

\* ---- JOIN: Server.handle_request, lines 249-273 ----
\* "if mtng_request.data.meetingID in self.meetings"
JoinLookup(c) ==
    /\ pc[c] = "join_look"
    /\ IF HasMeeting(meetings, req[c].mid)
       THEN /\ Goto(c, "join_check")
            /\ loc' = loc
       ELSE /\ Goto(c, "respond")
            /\ loc' = [loc EXCEPT ![c].response =
                          JoinFailure(MeetingNotFound(req[c].mid))]
    /\ event' = NoEvent
    /\ UNCHANGED <<nonDirVars, env, meetings, uniqueID, uniquePort, idLock, portLock,
                   sock, issued>>
    /\ Delivered

\* a check of the name that knows no reserved names
NameClaimed(entry, name) == name \in entry.usernames
\* is the requested name refused: already claimed, or one of the reserved names
NameRefused(entry, name) ==
    has_username(entry, name) \/ name \in {HOST_USERNAME, DEFAULT_USERNAME}

\* "meeting_entry = self.meetings[...]" (KeyError when the key has gone),
\* "requested_username = mtng_request.data.username" (AttributeError when the
\* frame has none), then the check of the name
JoinCheck(c) ==
    /\ pc[c] = "join_check"
    /\ IF ~HasMeeting(meetings, req[c].mid) \/ ~req[c].hasUser
       THEN Finish(c, "raised", <<>>)
       ELSE LET i == SlotOf(meetings, req[c].mid)
            IN /\ IF NameRefused(meetings[i], req[c].user)
                  THEN /\ loc' = [loc EXCEPT
                                    ![c].entry = i,
                                    ![c].response =
                                        JoinFailure(UsernameTaken(req[c].user))]
                       /\ Goto(c, "respond")
                  ELSE /\ loc' = [loc EXCEPT ![c].entry = i]
                       /\ Goto(c, "join_add")
               /\ event' = NoEvent
    /\ UNCHANGED <<nonDirVars, env, meetings, uniqueID, uniquePort, idLock, portLock,
                   sock, issued>>
    /\ Delivered

\* an add_username that forgets the names claimed before
replace_usernames(entry, name) == [entry EXCEPT !.usernames = {name}]
\* MeetingEntry.add_username
add_username(entry, name) == [entry EXCEPT !.usernames = @ \cup {name}]

\* "meeting_entry.add_username(requested_username)", then the response of a
\* star meeting, or the port allocation of a mesh meeting
JoinAdd(c) ==
    /\ pc[c] = "join_add"
    /\ LET i == loc[c].entry
           e == meetings[i]
       IN /\ meetings' = [meetings EXCEPT ![i] = add_username(@, req[c].user)]
          /\ IF e.mtype = STAR
             THEN /\ loc' = [loc EXCEPT ![c].response =
                                JoinStarSuccess(e.host, req[c].user)]
                  /\ Goto(c, "respond")
             ELSE /\ loc' = loc
                  /\ Goto(c, "port_acq")
    /\ event' = NoEvent
    /\ UNCHANGED <<nonDirVars, env, uniqueID, uniquePort, idLock, portLock, sock,
                   issued>>
    /\ Delivered

\* ---- the allocators: Server.new_meetingID, Server.new_meeting_port ----
\* "with self._unique_meetingID_lock: uid = self._unique_meetingID"
IdAcquire(c) ==
    /\ pc[c] = "id_acq"
    /\ LockIsFree(idLock)
    /\ idLock' = c
    /\ loc' = [loc EXCEPT ![c].uid = uniqueID]
    /\ Goto(c, "id_inc")
    /\ event' = NoEvent
    /\ UNCHANGED <<nonDirVars, env, meetings, uniqueID, uniquePort, portLock, sock,
                   issued>>
    /\ Delivered

\* "self._unique_meetingID += 1", the release of the lock, "return uid"
IdIncrement(c) ==
    /\ pc[c] = "id_inc"
    /\ uniqueID' = uniqueID + 1
    /\ idLock' = None
    /\ issued' = [issued EXCEPT !.ids = Append(@, loc[c].uid)]
    /\ Goto(c, "port_acq")
    /\ event' = NoEvent
    /\ UNCHANGED <<nonDirVars, env, meetings, uniquePort, portLock, sock, loc>>
    /\ Delivered

\* "with self._unique_meeting_port_lock: port = self._unique_meeting_port"
PortAcquire(c) ==
    /\ pc[c] = "port_acq"
    /\ LockIsFree(portLock)
    /\ portLock' = c
    /\ loc' = [loc EXCEPT ![c].port = uniquePort]
    /\ Goto(c, "port_inc")
    /\ event' = NoEvent
    /\ UNCHANGED <<nonDirVars, env, meetings, uniqueID, uniquePort, idLock, sock,
                   issued>>
    /\ Delivered

\* "self._unique_meeting_port += 1", the release, "return port"; a mesh JOIN
\* then builds its response, a CREATE goes on to the registry
PortIncrement(c) ==
    /\ pc[c] = "port_inc"
    /\ uniquePort' = uniquePort + 1
    /\ portLock' = None
    /\ issued' = [issued EXCEPT !.ports = Append(@, loc[c].port)]
    /\ IF req[c].type = JOIN
       THEN /\ loc' = [loc EXCEPT ![c].response =
                          JoinMeshSuccess(meetings[loc[c].entry].host,
                                          req[c].user, loc[c].port)]
            /\ Goto(c, "respond")
       ELSE /\ loc' = loc
            /\ Goto(c, "create_put")
    /\ event' = NoEvent
    /\ UNCHANGED <<nonDirVars, env, meetings, uniqueID, idLock, sock>>
    /\ Delivered

\* ---- CREATE: Server.handle_request, lines 278-295 ----
\* the address a connection comes from (addr_port[0])
AddrOf(c) == c

\* a rendezvous port derived from the meetingID instead of the port counter
PortFromMeetingID(c) == DEFAULT_P2P_PORT + loc[c].uid
\* the rendezvous port recorded for a new meeting: the value new_meeting_port
\* returned to this handler
RendezvousPort(c) == loc[c].port

\* a store that keeps the new entry alone
StoredAlone(ms, entry) == <<entry>>
\* a store that puts a new key in front of the others
StoredFirst(ms, entry) == <<entry>> \o ms
\* "self.meetings[meetingID] = ...": a new key goes to the end of the dict, an
\* existing key keeps its place
Stored(ms, entry) ==
    IF HasMeeting(ms, entry.id)
    THEN [ms EXCEPT ![SlotOf(ms, entry.id)] = entry]
    ELSE Append(ms, entry)

CreatePut(c) ==
    /\ pc[c] = "create_put"
    /\ LET meetingID == loc[c].uid
           p2p_port == RendezvousPort(c)
       IN /\ meetings' = Stored(meetings,
                 MeetingEntry(meetingID, req[c].mtype, c, <<AddrOf(c), p2p_port>>))
          /\ loc' = [loc EXCEPT ![c].response =
                        IF req[c].mtype = STAR
                        THEN CreateStarSuccess(meetingID, p2p_port)
                        ELSE CreateMeshSuccess(meetingID, p2p_port)]
    /\ Goto(c, "respond")
    /\ event' = NoEvent
    /\ UNCHANGED <<nonDirVars, env, uniqueID, uniquePort, idLock, portLock, sock,
                   issued>>
    /\ Delivered

\* ---- Server.send_response ----
\* the socket a handler answers on: the client_socket bound in
\* make_request_thread
ResponseSocket(c) == c

\* the history after handler c has sent response r
Recorded(h, c, r) ==
    IF r.type = JOIN /\ r.success /\ r.data.kind = "join"
    THEN [h EXCEPT !.joined = @ \cup {<<req[c].mid, req[c].user>>},
                   !.handed = IF r.data.meetingType = MESH
                              THEN Append(@, r.data.listen_p2p_port) ELSE @]
    ELSE h

Respond(c) ==
    /\ pc[c] = "respond"
    /\ LET r == loc[c].response
           s == ResponseSocket(c)
       IN IF ResponseIsValid(r)
          THEN /\ sock' = [sock EXCEPT ![s] = AfterSend(@)]
               /\ Finish(c, "answered",
                         IF sock[s] = "dead" THEN <<>>
                         ELSE <<ResponsePayload(s, r)>>)
               /\ issued' = Recorded(issued, c, r)
          ELSE /\ Finish(c, "answered", <<>>)
               /\ UNCHANGED <<sock, issued>>
    /\ UNCHANGED <<nonDirVars, env, meetings, uniqueID, uniquePort, idLock, portLock>>
    /\ Delivered

\* ---- the client side of a connection ----
\* the client closes its socket (Client.disconnect_from_server, or its
\* process ends)
ClientClose(c) ==
    /\ env.closes
    /\ c \in env.conns
    /\ sock[c] = "open"
    /\ sock' = [sock EXCEPT ![c] = "peerClosed"]
    /\ event' = NoEvent
    /\ UNCHANGED <<nonDirVars, env, meetings, uniqueID, uniquePort, idLock, portLock,
                   pc, req, loc, issued>>
    /\ Delivered

\* ---- the client's listener: ListenThread(ServerResponse, ...) ----
\* "for message_str in message_strs" on the text of a receive: a probe is
\* TEST_MESSAGE, with no delimiter, so it is the start of the piece that the
\* next delimiter ends; an encoded response ends with the delimiter.  A
\* piece that is a response alone is handed to the handler; a piece that
\* starts with the text of a probe is no JSON and is skipped.
RECURSIVE HandledOf(_, _)
HandledOf(chunk, afterProbe) ==
    IF Len(chunk) = 0 THEN <<>>
    ELSE IF Head(chunk).kind = "probe" THEN HandledOf(Tail(chunk), TRUE)
    ELSE (IF afterProbe THEN <<>> ELSE <<Head(chunk).response>>)
         \o HandledOf(Tail(chunk), FALSE)
\* the responses among the payloads of a receive
ResponsesOf(chunk) ==
    LET responses == SelectSeq(chunk, LAMBDA payload : payload.kind = "response")
    IN [k \in 1..Len(responses) |-> responses[k].response]

\* recv on the client's socket returns the first n payloads that are there
ClientReceive(c, n) ==
    /\ c \in DOMAIN inbox
    /\ n \in 1..Len(inbox[c])
    /\ inbox' = [inbox EXCEPT ![c] = SubSeq(@, n + 1, Len(@))]
    /\ heard' = [heard EXCEPT ![c] =
                    [chunk |-> SubSeq(inbox[c], 1, n),
                     handled |-> HandledOf(SubSeq(inbox[c], 1, n), FALSE)]]
    /\ UNCHANGED <<nonDirVars, dirVars>>

NextDir ==
    \E c \in Conns :
        \/ \E f \in Frames : Receive(c, f)
        \/ ListScan(c)
        \/ ListDelete(c)
        \/ JoinLookup(c)
        \/ JoinCheck(c)
        \/ JoinAdd(c)
        \/ IdAcquire(c)
        \/ IdIncrement(c)
        \/ PortAcquire(c)
        \/ PortIncrement(c)
        \/ CreatePut(c)
        \/ Respond(c)
        \/ ClientClose(c)

(***************************************************************************)
(*                            STAR  HOST                                   *)
(***************************************************************************)

\* ---- texts ----
\* A str is a sequence of characters; BAD_WORDS are "xxx", "yyy", "zzz".
BAD_WORDS == << <<"x", "x", "x">>, <<"y", "y", "y">>, <<"z", "z", "z">> >>

\* "bw in question_str": bw occurs in question_str as a substring
Contains(question_str, bw) ==
    \E i \in 1..(Len(question_str) - Len(bw) + 1) :
        SubSeq(question_str, i, i + Len(bw) - 1) = bw

\* a text that passes every check
PassesEveryCheck(question_str) == TRUE
\* "all([bw not in question_str for bw in BAD_WORDS])"
IsClean(question_str) ==
    \A k \in 1..Len(BAD_WORDS) : ~Contains(question_str, BAD_WORDS[k])

\* The strings the host builds with "%": the format used, and the values put
\* into it (a number, a username, a text).  A text typed by a user is "plain".
Text(kind, number, user, body) ==
    [kind |-> kind, number |-> number, user |-> user, body |-> body]
PlainText(body) == Text("plain", 0, "", body)
EmptyText == PlainText(<<>>)
\* HostNode.welcome_message: "You are connected to host of meeting %s."
WelcomeText(meetingID) == Text("welcome", meetingID, "", <<>>)
\* "This is warning number %s."
WarningText(n) == Text("warning", n, "", <<>>)
\* MeshAudienceNode.welcome_message: "You are connected to user '%s'"
ConnectedText(username) == Text("connected", 0, username, <<>>)
\* "\nGoodbye."
GoodbyeText == Text("goodbye", 0, "", <<>>)
\* a question passed on without the name of who asked
UnsignedQuestionText(username, question_str) ==
    Text("question", 0, "", question_str)
\* "Question from %s: '%s'"
QuestionText(username, question_str) ==
    Text("question", 0, username, question_str)

\* ---- P2PMessage objects (message_types.py) ----
P2P_TEXT == "p2p_text"
P2P_REGISTER_USERNAME == "p2p_username"
P2P_REGISTER_PORT == "p2p_register_port"
P2P_MESH_CONNECT == "p2p_mesh_connect"
P2P_MESSAGE_TYPES ==
    {P2P_TEXT, P2P_REGISTER_USERNAME, P2P_MESH_CONNECT, P2P_REGISTER_PORT}

\* the data of a P2PMessage: absent fields are "" / -1 / <<>>
P2PData(username, listen_p2p_port, hosts) ==
    [username |-> username, listen_p2p_port |-> listen_p2p_port,
     hosts |-> hosts]
NoP2PData == P2PData("", -1, <<>>)
\* a P2PMessage as its listener sees it: message is "" when the dictionary
\* had none (P2PMessage.__init__)
P2PFrame(type, message, data) ==
    [type |-> type, message |-> message, data |-> data]
P2PText(message) == P2PFrame(P2P_TEXT, message, NoP2PData)
RegisterUsername(username) ==
    P2PFrame(P2P_REGISTER_USERNAME, EmptyText, P2PData(username, -1, <<>>))
RegisterPort(listen_p2p_port) ==
    P2PFrame(P2P_REGISTER_PORT, EmptyText, P2PData("", listen_p2p_port, <<>>))
MeshConnect(addr_ports) ==
    P2PFrame(P2P_MESH_CONNECT, EmptyText, P2PData("", -1, addr_ports))
\* a frame whose type is none of the four
BogusP2P == P2PFrame("bogus", EmptyText, NoP2PData)

\* P2PMessage.is_valid
P2PIsValid(m) == m.type \in P2P_MESSAGE_TYPES

\* ---- bounds of the star meeting ----
\* the connections spokes make to the host, each named by the (address,
\* port) of the spoke's end
Spokes == {"s1", "s2", "s3"}
\* the username each spoke was granted by the directory, which it registers
SpokeName == [p \in Spokes |-> IF p = "s1" THEN "alice"
                               ELSE IF p = "s2" THEN "bob" ELSE "carol"]
\* texts a spoke may type
Texts ==
    { <<"h", "i">>, <<"x", "x">>, <<"a", "x", "x", "x">>,
      <<"z", "z", "z", "y">> }

\* what spoke p can put on its connection
SpokeFrames(p) ==
    {P2PText(PlainText(t)) : t \in Texts}
    \cup {RegisterUsername(SpokeName[p]),
          RegisterPort(DEFAULT_P2P_PORT), MeshConnect(<<>>), BogusP2P}

\* ---- the peer table: HostNode.peers, a dict in insertion order ----
\* PeerInfo; the key of the entry is kept with it, and "live" is false once
\* the key was deleted
\* PeerInfo.listen_p2p_port is the peer's addr_port tuple when the entry is
\* made (add_new_peer passes it) and an int once set_p2p_port has run
Unregistered(addr_port) == [isInt |-> FALSE, port |-> -1, tuple |-> addr_port]
\* a PeerInfo that starts with a warning
PeerInfoWarned(addr_port, username) ==
    [key |-> addr_port, username |-> username, user_warnings |-> 1,
     listen_p2p_port |-> Unregistered(addr_port), live |-> TRUE]
PeerInfo(addr_port, username) ==
    [key |-> addr_port, username |-> username, user_warnings |-> 0,
     listen_p2p_port |-> Unregistered(addr_port), live |-> TRUE]

PeerSlots(ps, addr_port) == {i \in LiveSlots(ps) : ps[i].key = addr_port}
\* addr_port in self.peers
InPeers(ps, addr_port) == PeerSlots(ps, addr_port) # {}
PeerSlot(ps, addr_port) == CHOOSE i \in PeerSlots(ps, addr_port) : TRUE
PeerKeys(ps) == {ps[i].key : i \in LiveSlots(ps)}

\* HostNode.add_new_peer: nothing when the key is there already
add_new_peer(ps, addr_port, username) ==
    IF InPeers(ps, addr_port) THEN ps
    ELSE Append(ps, PeerInfo(addr_port, username))
\* HostNode.set_p2p_port
set_p2p_port(ps, addr_port, listen_p2p_port) ==
    IF InPeers(ps, addr_port)
    THEN [ps EXCEPT ![PeerSlot(ps, addr_port)].listen_p2p_port =
             [@ EXCEPT !.isInt = TRUE, !.port = listen_p2p_port]]
    ELSE ps
\* HostNode.set_username
set_username(ps, addr_port, user_str) ==
    IF InPeers(ps, addr_port)
    THEN [ps EXCEPT ![PeerSlot(ps, addr_port)].username = user_str]
    ELSE ps
\* HostNode.unknown_peer_error(self, addr_port, msg), called with so many
\* arguments besides self: it logs, or the call itself raises TypeError
unknown_peer_error(arguments) ==
    IF arguments = 2 THEN "returned" ELSE "TypeError"
\* a get_username that passes a text to unknown_peer_error, as the others do
TwoArgumentsPassed(operation) == 2
\* the arguments each operation passes to unknown_peer_error
ArgumentsPassed(operation) == IF operation = "get_username" THEN 1 ELSE 2

\* how a call of the operation ends
CallOutcome(operation, ps, addr_port) ==
    IF InPeers(ps, addr_port) THEN "returned"
    ELSE unknown_peer_error(ArgumentsPassed(operation))
\* HostNode.get_username: for a peer that is not in the table, what
\* unknown_peer_error returns, when it returns
get_username(ps, addr_port) ==
    IF InPeers(ps, addr_port) THEN ps[PeerSlot(ps, addr_port)].username
    ELSE None
\* a give_warning that counts double
give_two_warnings(ps, addr_port) ==
    IF InPeers(ps, addr_port)
    THEN [ps EXCEPT ![PeerSlot(ps, addr_port)].user_warnings = @ + 2]
    ELSE ps
\* HostNode.give_warning
give_warning(ps, addr_port) ==
    IF InPeers(ps, addr_port)
    THEN [ps EXCEPT ![PeerSlot(ps, addr_port)].user_warnings = @ + 1]
    ELSE ps
\* HostNode.get_user_warnings
get_user_warnings(ps, addr_port) ==
    IF InPeers(ps, addr_port)
    THEN ps[PeerSlot(ps, addr_port)].user_warnings
    ELSE 0
\* what is left of a deleted entry: the place its key had in the dict
Deleted(addr_port) ==
    [key |-> addr_port, username |-> "", user_warnings |-> 0,
     listen_p2p_port |-> Unregistered(addr_port), live |-> FALSE]
\* HostNode.remove_user: the entry leaves the table
remove_user(ps, addr_port) ==
    IF InPeers(ps, addr_port)
    THEN [ps EXCEPT ![PeerSlot(ps, addr_port)] = Deleted(addr_port)]
    ELSE ps

\* a payload written on the host's socket to a peer
Sent(addr_port, p2p_msg) == [to |-> addr_port, msg |-> p2p_msg]
\* HostNode.direct_message: what it writes
direct_message(ps, addr_port, msg) ==
    IF InPeers(ps, addr_port) /\ P2PIsValid(P2PText(msg))
    THEN <<Sent(addr_port, P2PText(msg))>>
    ELSE <<>>

\* ---- state of the star host ----
\* An environment: the spokes that connect, those among them that may type
\* an offending text, those that may close their connection, and whether a
\* thread of the host may run while a handler is in progress.
StarEnvironment(spokes, rude, closing, overlap) ==
    [spokes |-> spokes, rude |-> rude, closing |-> closing,
     overlap |-> overlap]
NoStar == StarEnvironment({}, {}, {}, FALSE)

\* locals of handle_question / broadcast_message
\* (audience: the keys of the table when the loop of the broadcast started)
NoStarLocals ==
    [msg_str |-> EmptyText, pos |-> 1, used |-> 0, reached |-> {},
     audience |-> {}]
\* what a step did: kind is "step", "dropped" (invalid frame), "raised" (the
\* handler raised), "handled" (the handler returned), "accepted", "closed"
StarEvent(p, kind, sends) == [conn |-> p, kind |-> kind, sends |-> sends]
NoStarEvent == StarEvent(None, "step", <<>>)
\* history of a connection: the offending TEXTs the host received on it, and
\* the texts the host sent to it alone
\* (leftover: frames of its last receive handled after the peer was removed)
NoHistory == [offences |-> 0, private |-> <<>>, leftover |-> 0]

InitStar(e) ==
    /\ senv = e
    /\ peers = <<>>
    /\ link = [p \in Spokes |-> [spoke |-> "none", host |-> "none"]]
    /\ lt = [p \in Spokes |-> "off"]
    /\ sreq = [p \in Spokes |-> BogusP2P]
    /\ sloc = [p \in Spokes |-> NoStarLocals]
    /\ sevent = NoStarEvent
    /\ slog = [p \in Spokes |-> NoHistory]

\* no listener of another connection is in the middle of something
OtherListenersIdle(p) ==
    \A q \in Spokes \ {p} : lt[q] \in {"off", "recv", "ended"}
MayRun(p) == senv.overlap \/ OtherListenersIdle(p)

\* the handler of connection p ends; its listener goes back to recv
StarFinish(p, how, sends) ==
    /\ lt' = [lt EXCEPT ![p] = IF link[p].host = "closed" THEN "exit" ELSE "recv"]
    /\ sreq' = [sreq EXCEPT ![p] = BogusP2P]
    /\ sloc' = [sloc EXCEPT ![p] = NoStarLocals]
    /\ sevent' = StarEvent(p, how, sends)

\* HostNode.wait_for_connections on the star host: a spoke connects, the
\* acceptor sends the host's username and the welcome text, and adds the peer
StarAccept(p) ==
    /\ p \in senv.spokes
    /\ link[p].host = "none"
    /\ senv.overlap \/ \A q \in Spokes : lt[q] \in {"off", "recv", "ended"}
    /\ link' = [link EXCEPT ![p] = [spoke |-> "open", host |-> "open"]]
    /\ peers' = add_new_peer(peers, p, DEFAULT_USERNAME)
    /\ lt' = [lt EXCEPT ![p] = "recv"]
    /\ sevent' = StarEvent(p, "accepted",
                   <<Sent(p, RegisterUsername(HOST_USERNAME)),
                     Sent(p, P2PText(WelcomeText(0)))>>)
    /\ UNCHANGED <<nonStarVars, senv, sreq, sloc, slog>>

\* ListenThread.listen_and_do on a spoke's connection: a frame is received
\* and validated; an offending TEXT is counted in the history
StarReceive(p, m) ==
    /\ lt[p] = "recv"
    /\ link[p] = [spoke |-> "open", host |-> "open"]
    /\ m \in SpokeFrames(p)
    /\ (m.type = P2P_TEXT /\ ~IsClean(m.message.body)) => p \in senv.rude
    /\ MayRun(p)
    /\ IF ~P2PIsValid(m)
       THEN /\ sevent' = StarEvent(p, "dropped", <<>>)
            /\ UNCHANGED <<lt, sreq, slog>>
       ELSE /\ sevent' = NoStarEvent
            /\ lt' = [lt EXCEPT ![p] = "handle"]
            /\ sreq' = [sreq EXCEPT ![p] = m]
            /\ slog' = [slog EXCEPT ![p].offences =
                          IF /\ m.type = P2P_TEXT
                             /\ \E k \in 1..Len(BAD_WORDS) :
                                    Contains(m.message.body, BAD_WORDS[k])
                          THEN @ + 1 ELSE @]
    /\ UNCHANGED <<nonStarVars, senv, peers, link, sloc>>

\* StarHostNode.handle_p2p_message, and for a TEXT the first part of
\* handle_question: a clean text is rendered for the broadcast, an offending
\* one gets the sender a warning
StarHandle(p) ==
    /\ lt[p] = "handle"
    /\ LET m == sreq[p]
       IN IF m.type = P2P_TEXT
          THEN IF CallOutcome("get_username", peers, p) = "TypeError"
               THEN \* get_username of an unknown peer raises
                    /\ StarFinish(p, "raised", <<>>)
                    /\ UNCHANGED <<peers, slog>>
               ELSE IF IsClean(m.message.body)
               THEN /\ lt' = [lt EXCEPT ![p] = "bcast"]
                    /\ sloc' = [sloc EXCEPT ![p] =
                          [msg_str |-> QuestionText(get_username(peers, p),
                                                    m.message.body),
                           pos |-> 1,
                           used |-> Cardinality(LiveSlots(peers)),
                           reached |-> {},
                           audience |-> PeerKeys(peers)]]
                    /\ sevent' = NoStarEvent
                    /\ UNCHANGED <<peers, sreq, slog>>
               ELSE LET warned == give_warning(peers, p)
                        text == WarningText(get_user_warnings(warned, p))
                    IN /\ peers' = warned
                       /\ lt' = [lt EXCEPT ![p] = "check"]
                       /\ sevent' = StarEvent(p, "step",
                                       direct_message(warned, p, text))
                       /\ slog' = [slog EXCEPT ![p].private = Append(@, text)]
                       /\ UNCHANGED <<sreq, sloc>>
          ELSE IF m.type = P2P_REGISTER_USERNAME
          THEN /\ peers' = set_username(peers, p, m.data.username)
               /\ StarFinish(p, "handled", <<>>)
               /\ slog' = slog
          ELSE \* MESH_CONNECT and REGISTER_PORT are ignored by a star host
               /\ StarFinish(p, "handled", <<>>)
               /\ UNCHANGED <<peers, slog>>
    /\ UNCHANGED <<nonStarVars, senv, link>>

\* the size the dict iterator of the broadcast of p compares with, and the
\* keys of the dict at that time: taken when the loop starts, at its first turn
SizeAtBroadcastStart(p) ==
    IF sloc[p].pos = 1 THEN Cardinality(LiveSlots(peers)) ELSE sloc[p].used
AudienceAtBroadcastStart(p) ==
    IF sloc[p].pos = 1 THEN PeerKeys(peers) ELSE sloc[p].audience

\* HostNode.broadcast_message: one turn of "for addr_port in self.peers"
\* (RuntimeError when the dict changed size), with its direct_message
StarBroadcast(p) ==
    /\ lt[p] = "bcast"
    /\ LET l == sloc[p]
           rest == {i \in LiveSlots(peers) : i >= l.pos}
       IN IF Cardinality(LiveSlots(peers)) # SizeAtBroadcastStart(p)
          THEN StarFinish(p, "raised", <<>>)
          ELSE IF rest = {}
          THEN StarFinish(p, "handled", <<>>)
          ELSE LET i == Min(rest)
               IN /\ sevent' = StarEvent(p, "step",
                                  direct_message(peers, peers[i].key, l.msg_str))
                  /\ sloc' = [sloc EXCEPT ![p].pos = i + 1,
                                          ![p].used = SizeAtBroadcastStart(p),
                                          ![p].audience = AudienceAtBroadcastStart(p),
                                          ![p].reached = @ \cup {peers[i].key}]
                  /\ UNCHANGED <<lt, sreq>>
    /\ UNCHANGED <<nonStarVars, senv, peers, link, slog>>

\* the end of handle_question for an offending text: at MAX_WARNINGS the
\* farewell is sent and remove_user stops the listener, closes the socket and
\* deletes the entry
StarCheckWarnings(p) ==
    /\ lt[p] = "check"
    /\ IF get_user_warnings(peers, p) = MAX_WARNINGS
       THEN /\ sevent' = StarEvent(p, "handled",
                            direct_message(peers, p, GoodbyeText))
            /\ slog' = [slog EXCEPT ![p].private =
                          IF InPeers(peers, p) THEN Append(@, GoodbyeText) ELSE @]
            /\ peers' = remove_user(peers, p)
            /\ link' = IF InPeers(peers, p)
                       THEN [link EXCEPT ![p].host = "closed"] ELSE link
            /\ lt' = [lt EXCEPT ![p] = IF InPeers(peers, p) THEN "exit" ELSE "recv"]
            /\ sreq' = [sreq EXCEPT ![p] = BogusP2P]
            /\ sloc' = [sloc EXCEPT ![p] = NoStarLocals]
       ELSE /\ StarFinish(p, "handled", <<>>)
            /\ UNCHANGED <<peers, link, slog>>
    /\ UNCHANGED <<nonStarVars, senv>>

\* frames handled after remove_user stopped the listener: the most that one
\* receive holds behind the frame that got the peer removed
MaxLeftover == 2
\* remove_user only clears the flag of the listener, which is inside "for
\* message_str in message_strs": the frames that came in the same receive
\* are still decoded, validated and handed to the handler
StarLeftover(p, m) ==
    /\ lt[p] = "exit"
    /\ m \in SpokeFrames(p)
    /\ slog[p].leftover < MaxLeftover
    /\ slog' = [slog EXCEPT ![p].leftover = @ + 1]
    /\ IF ~P2PIsValid(m)
       THEN /\ sevent' = StarEvent(p, "dropped", <<>>)
            /\ UNCHANGED <<lt, sreq>>
       ELSE /\ sevent' = NoStarEvent
            /\ lt' = [lt EXCEPT ![p] = "handle"]
            /\ sreq' = [sreq EXCEPT ![p] = m]
    /\ UNCHANGED <<nonStarVars, senv, peers, link, sloc>>

\* the listener finds its flag cleared: it leaves the loop, shuts the socket
\* down and calls on_close, that is remove_user
StarListenerExit(p) ==
    /\ lt[p] = "exit"
    /\ lt' = [lt EXCEPT ![p] = "ended"]
    /\ link' = [link EXCEPT ![p].host = "closed"]
    /\ peers' = remove_user(peers, p)
    /\ sevent' = StarEvent(p, "closed", <<>>)
    /\ UNCHANGED <<nonStarVars, senv, sreq, sloc, slog>>

\* the spoke closes its end (or its process ends)
SpokeClose(p) ==
    /\ p \in senv.closing
    /\ link[p].spoke = "open"
    /\ link' = [link EXCEPT ![p].spoke = "closed"]
    /\ sevent' = NoStarEvent
    /\ UNCHANGED <<nonStarVars, senv, peers, lt, sreq, sloc, slog>>

\* recv returns no bytes (or raises): on_close, that is remove_user, and the
\* listener returns
StarListenerSeesClose(p) ==
    /\ lt[p] = "recv"
    /\ link[p].spoke = "closed"
    /\ MayRun(p)
    /\ lt' = [lt EXCEPT ![p] = "ended"]
    /\ link' = [link EXCEPT ![p].host = "closed"]
    /\ peers' = remove_user(peers, p)
    /\ sevent' = StarEvent(p, "closed", <<>>)
    /\ UNCHANGED <<nonStarVars, senv, sreq, sloc, slog>>

NextStar ==
    \E p \in Spokes :
        \/ StarAccept(p)
        \/ \E m \in SpokeFrames(p) : StarReceive(p, m)
        \/ StarHandle(p)
        \/ StarBroadcast(p)
        \/ StarCheckWarnings(p)
        \/ \E m \in SpokeFrames(p) : StarLeftover(p, m)
        \/ StarListenerExit(p)
        \/ SpokeClose(p)
        \/ StarListenerSeesClose(p)


(***************************************************************************)
(*                           MESH  MEETING                                 *)
(***************************************************************************)
\* the nodes of one mesh meeting: A created it (MeshHostNode), the others
\* join it (MeshAudienceNode)
MeshNodes == {"A", "B", "C"}
MeshHost == "A"
\* the username of each node: the host's is HOST_USERNAME, a joiner's is the
\* one the directory granted
MeshName ==
    [n \in MeshNodes |-> IF n = MeshHost THEN HOST_USERNAME
                         ELSE IF n = "B" THEN "bob" ELSE "carol"]
\* the listen port the directory allocated to each node: the rendezvous port
\* of the meeting for the host, one more port for each joiner
ListenPort ==
    [n \in MeshNodes |-> IF n = MeshHost THEN DEFAULT_P2P_PORT
                         ELSE IF n = "B" THEN DEFAULT_P2P_PORT + 1
                         ELSE DEFAULT_P2P_PORT + 2]
\* the address of a node
MeshAddr(n) == n
\* (address, port) of the listening socket of node m
ListenKey(m) == [addr |-> MeshAddr(m), port |-> ListenPort[m]]
\* (address, port) of n's end of the connection n made to m: a port the
\* operating system picked, different for every connection
EphemeralKey(n, m) ==
    [addr |-> MeshAddr(n), port |-> 2 * ListenPort[n] + ListenPort[m]]

\* the connection that n made (or may make) to m
Links == {nm \in MeshNodes \X MeshNodes : nm[1] # nm[2]}

\* An environment of the mesh: the nodes that join, and whether a node may
\* start joining before an earlier join has settled.
MeshEnvironment(joiners, overlap) == [joiners |-> joiners, overlap |-> overlap]
NoMesh == MeshEnvironment({}, FALSE)

NoNode == [phase |-> "off", listening |-> FALSE, peers |-> <<>>]
NoLink == [state |-> "none", up |-> <<>>, down |-> <<>>]

InitMesh(e) ==
    /\ menv = e
    /\ mesh = [n \in MeshNodes |-> NoNode]
    /\ wire = [nm \in Links |-> NoLink]

\* nothing is in progress: no connection waits to be accepted, no frame
\* waits to be handled, and every node that exists is accepting
Quiescent ==
    /\ \A nm \in Links :
          wire[nm].state # "pending" /\ wire[nm].up = <<>> /\ wire[nm].down = <<>>
    /\ \A n \in MeshNodes : mesh[n].phase # "off" => mesh[n].listening

\* the join of n has settled: the host has handled n's REGISTER_USERNAME and
\* REGISTER_PORT, and the acceptor thread that n's constructor started
\* before it dialled the host is accepting
JoinSettled(n) ==
    /\ mesh[n].phase = "joined"
    /\ mesh[n].listening
    /\ \E i \in DOMAIN mesh[MeshHost].peers :
          LET peer_obj == mesh[MeshHost].peers[i]
          IN /\ peer_obj.key = EphemeralKey(n, MeshHost)
             /\ peer_obj.live
             /\ peer_obj.username = MeshName[n]
             /\ peer_obj.listen_p2p_port.isInt

\* "if peer_obj.listen_p2p_port"
Truthy(listen_p2p_port) ==
    IF listen_p2p_port.isInt THEN listen_p2p_port.port # 0 ELSE TRUE

\* a host that tells a new peer about nobody
NoOtherPeers(ps) == <<>>
\* MeshHostNode.wait_for_connections: other_peer_addr_ports, one
\* (addr_prt[0], peer_obj.listen_p2p_port) for each peer with a listen port
RECURSIVE OtherPeerAddrPorts(_)
OtherPeerAddrPorts(ps) ==
    IF ps = <<>> THEN <<>>
    ELSE LET peer_obj == Head(ps)
         IN (IF peer_obj.live /\ Truthy(peer_obj.listen_p2p_port)
             THEN <<[addr |-> peer_obj.key.addr,
                     listen |-> peer_obj.listen_p2p_port]>>
             ELSE <<>>) \o OtherPeerAddrPorts(Tail(ps))

\* connect_to_peer on an entry of a MESH_CONNECT payload: the node that the
\* connection reaches; none when the entry's port is not an int (connect
\* raises) or nobody listens there
Reached(entry) ==
    {m \in MeshNodes :
        /\ entry.listen.isInt
        /\ mesh[m].listening
        /\ MeshAddr(m) = entry.addr
        /\ ListenPort[m] = entry.listen.port}

\* the host is created: MeshHostNode(HOST_USERNAME, meetingID, port) starts
\* its acceptor thread
MeshCreate ==
    /\ menv.joiners # {}
    /\ mesh[MeshHost].phase = "off"
    /\ mesh' = [mesh EXCEPT ![MeshHost].phase = "created"]
    /\ UNCHANGED <<nonMeshVars, menv, wire>>

\* HostNode.wait_for_connections, up to accept(): the acceptor thread binds
\* the listen port and listens
MeshListen(n) ==
    /\ mesh[n].phase # "off"
    /\ ~mesh[n].listening
    /\ mesh' = [mesh EXCEPT ![n].listening = TRUE]
    /\ UNCHANGED <<nonMeshVars, menv, wire>>

\* MeshAudienceNode.__init__: the acceptor thread is started; the node
\* connects to the host, sends its username, its listen port and a greeting,
\* and adds the host to its peer table (nothing of this when connect fails)
MeshJoin(n) ==
    /\ n \in menv.joiners
    /\ mesh[n].phase = "off"
    /\ mesh[MeshHost].phase # "off"
    /\ menv.overlap
       \/ \A k \in menv.joiners \ {n} : mesh[k].phase = "off" \/ JoinSettled(k)
    /\ IF mesh[MeshHost].listening
       THEN /\ mesh' = [mesh EXCEPT
                  ![n].phase = "joined",
                  ![n].peers = add_new_peer(@, ListenKey(MeshHost), HOST_USERNAME)]
            /\ wire' = [wire EXCEPT ![<<n, MeshHost>>] =
                  [state |-> "pending",
                   up |-> <<RegisterUsername(MeshName[n]),
                            RegisterPort(ListenPort[n]),
                            P2PText(ConnectedText(MeshName[n]))>>,
                   down |-> <<>>]]
       ELSE /\ mesh' = [mesh EXCEPT ![n].phase = "failed"]
            /\ wire' = wire
    /\ UNCHANGED <<nonMeshVars, menv>>

\* the acceptor of m accepts the connection n made: it sends its username
\* and a greeting and adds the peer; the host (MeshHostNode) computes the
\* addresses of the other peers before adding, and sends them afterwards
MeshAccept(n, m) ==
    /\ wire[<<n, m>>].state = "pending"
    /\ mesh[m].listening
    /\ LET greeting ==
               IF m = MeshHost
               THEN <<RegisterUsername(HOST_USERNAME), P2PText(WelcomeText(0)),
                      MeshConnect(OtherPeerAddrPorts(mesh[m].peers))>>
               ELSE <<RegisterUsername(MeshName[m]),
                      P2PText(WelcomeText(-1))>>
       IN /\ wire' = [wire EXCEPT ![<<n, m>>].state = "open",
                                  ![<<n, m>>].down = @ \o greeting]
          /\ mesh' = [mesh EXCEPT ![m].peers =
                         add_new_peer(@, EphemeralKey(n, m), DEFAULT_USERNAME)]
    /\ UNCHANGED <<nonMeshVars, menv>>

\* handle_p2p_message of a mesh node for a frame of the peer addr_port, on
\* the peer table ps: REGISTER_USERNAME sets the name; REGISTER_PORT sets
\* the port on the host only (MeshAudienceNode has no such branch)
MeshHandled(node, ps, addr_port, m) ==
    IF m.type = P2P_REGISTER_USERNAME
    THEN set_username(ps, addr_port, m.data.username)
    ELSE IF m.type = P2P_REGISTER_PORT /\ node = MeshHost
    THEN set_p2p_port(ps, addr_port, m.data.listen_p2p_port)
    ELSE ps

\* the listener that m started at accept handles the next frame from n
MeshHandleUp(n, m) ==
    /\ wire[<<n, m>>].state = "open"
    /\ wire[<<n, m>>].up # <<>>
    /\ wire' = [wire EXCEPT ![<<n, m>>].up = Tail(@)]
    /\ mesh' = [mesh EXCEPT ![m].peers =
                   MeshHandled(m, @, EphemeralKey(n, m), Head(wire[<<n, m>>].up))]
    /\ UNCHANGED <<nonMeshVars, menv>>

\* MeshAudienceNode.connect_to_mesh: for each entry, connect_to_peer, and
\* when it succeeded add_new_peer, then the username and a greeting.
\* The result is the pair of the node's peer table and the connections.
RECURSIVE connect_to_mesh(_, _, _, _)
connect_to_mesh(n, peer_addr_ports, ps, w) ==
    IF peer_addr_ports = <<>> THEN <<ps, w>>
    ELSE LET entry == Head(peer_addr_ports)
             to == Reached(entry) \ {n}
         IN IF to = {} \/ (\E m \in to : w[<<n, m>>].state # "none")
            THEN connect_to_mesh(n, Tail(peer_addr_ports), ps, w)
            ELSE LET m == CHOOSE x \in to : TRUE
                 IN connect_to_mesh(n, Tail(peer_addr_ports),
                        add_new_peer(ps, ListenKey(m), DEFAULT_USERNAME),
                        [w EXCEPT ![<<n, m>>] =
                            [state |-> "pending",
                             up |-> <<RegisterUsername(MeshName[n]),
                                      P2PText(ConnectedText(MeshName[n]))>>,
                             down |-> <<>>]])

\* the listener that n started when it connected to m handles the next frame
\* from m; a MESH_CONNECT makes an audience node connect to the listed peers
MeshHandleDown(n, m) ==
    /\ wire[<<n, m>>].state # "none"
    /\ wire[<<n, m>>].down # <<>>
    /\ LET f == Head(wire[<<n, m>>].down)
           rest == [wire EXCEPT ![<<n, m>>].down = Tail(@)]
       IN IF f.type = P2P_MESH_CONNECT /\ n # MeshHost
          THEN LET r == connect_to_mesh(n, f.data.hosts, mesh[n].peers, rest)
               IN /\ mesh' = [mesh EXCEPT ![n].peers = r[1]]
                  /\ wire' = r[2]
          ELSE /\ mesh' = [mesh EXCEPT ![n].peers =
                              MeshHandled(n, @, ListenKey(m), f)]
               /\ wire' = rest
    /\ UNCHANGED <<nonMeshVars, menv>>

NextMesh ==
    \/ MeshCreate
    \/ \E n \in MeshNodes : MeshListen(n)
    \/ \E n \in MeshNodes : MeshJoin(n)
    \/ \E nm \in Links : MeshAccept(nm[1], nm[2])
    \/ \E nm \in Links : MeshHandleUp(nm[1], nm[2])
    \/ \E nm \in Links : MeshHandleDown(nm[1], nm[2])


(***************************************************************************)
(*                     MESSAGES  ON  THE  WIRE                             *)
(***************************************************************************)
\* the longest list a message carries
MaxListLen == 2

\* ---- Python values, each with its type ----
PyNone == [t |-> "NoneType"]
PyInt(i) == [t |-> "int", v |-> i]
PyBool(b) == [t |-> "bool", v |-> b]
\* a string made at run time, and a string that is a module-level constant
\* (the same object wherever the constant is used)
PyStr(str) == [t |-> "str", v |-> str, const |-> FALSE]
PyConst(str) == [t |-> "str", v |-> str, const |-> TRUE]
PyList(items) == [t |-> "list", v |-> items]
PyTuple(items) == [t |-> "tuple", v |-> items]
\* a dict is its items <<key, value>> in insertion order
PyDict(items) == [t |-> "dict", v |-> items]
\* an instance of SocketMessage or of a subclass
PyObject(cls, msg_fields, attrs) ==
    [t |-> "SocketMessage", cls |-> cls, msg_fields |-> msg_fields,
     attrs |-> attrs]
\* what reading an attribute that is not there gives
AttributeError == [t |-> "AttributeError"]

REQUEST_FIELDS == <<"type", "data", "message">>
DATA_FIELDS ==
    <<"meetingType", "meetingID", "hosts", "username", "host",
      "listen_p2p_port">>
RESPONSE_FIELDS == <<"type", "success", "message", "data">>
P2P_MESSAGE_FIELDS == <<"type", "message", "data">>

InList(x, list) == \E i \in DOMAIN list : list[i] = x
HasKey(dict, key) == \E i \in DOMAIN dict.v : dict.v[i][1] = key

NoAttrs == [k \in {} |-> PyNone]
setattr(attrs, key, attr) ==
    [k \in DOMAIN attrs \cup {key} |-> IF k = key THEN attr ELSE attrs[k]]
hasattr(obj, key) == obj.t = "SocketMessage" /\ key \in DOMAIN obj.attrs
getattr(obj, key) == IF hasattr(obj, key) THEN obj.attrs[key] ELSE AttributeError

\* SocketMessage.__init__: "if key in msg_fields"
Expected(key, msg_fields) == InList(key, msg_fields)

\* SocketMessage.__init__: each expected key of the dictionary becomes an
\* attribute, a nested dictionary becomes a SocketMessage with
\* DATA_FIELDS + msg_fields; other keys are ignored
RECURSIVE SocketMessage(_, _, _)
RECURSIVE SetAttrs(_, _, _)
SetAttrs(items, msg_fields, attrs) ==
    IF Len(items) = 0 THEN attrs
    ELSE LET key == Head(items)[1]
             val == Head(items)[2]
             attr == IF val.t = "dict"
                     THEN SocketMessage(val, DATA_FIELDS \o msg_fields,
                                        "SocketMessage")
                     ELSE val
         IN SetAttrs(Tail(items), msg_fields,
                     IF Expected(key, msg_fields)
                     THEN setattr(attrs, key, attr) ELSE attrs)
SocketMessage(msg_dict, msg_fields, cls) ==
    PyObject(cls, msg_fields, SetAttrs(msg_dict.v, msg_fields, NoAttrs))

\* SocketMessage._get_dict: the attributes named by msg_fields, in that
\* order, nested SocketMessage objects converted back to dictionaries
RECURSIVE get_dict(_)
RECURSIVE DictItems(_, _)
DictItems(obj, keys) ==
    IF Len(keys) = 0 THEN <<>>
    ELSE LET key == Head(keys)
             attr == obj.attrs[key]
         IN (IF hasattr(obj, key)
             THEN <<<<key, IF attr.t = "SocketMessage" THEN get_dict(attr)
                           ELSE attr>>>>
             ELSE <<>>) \o DictItems(obj, Tail(keys))
get_dict(obj) == PyDict(DictItems(obj, obj.msg_fields))

\* ---- JSON text ----
\* json.dumps: the JSON text of a Python value, as the document it spells;
\* a list and a tuple both become an array, None becomes null
RECURSIVE dumps(_)
RECURSIVE DumpAll(_)
RECURSIVE DumpItems(_)
DumpAll(items) ==
    IF Len(items) = 0 THEN <<>>
    ELSE <<dumps(Head(items))>> \o DumpAll(Tail(items))
DumpItems(items) ==
    IF Len(items) = 0 THEN <<>>
    ELSE <<<<Head(items)[1], dumps(Head(items)[2])>>>> \o DumpItems(Tail(items))
dumps(x) ==
    CASE x.t = "NoneType" -> [j |-> "null"]
      [] x.t = "int" -> [j |-> "number", v |-> x.v]
      [] x.t = "bool" -> [j |-> "boolean", v |-> x.v]
      [] x.t = "str" -> [j |-> "string", v |-> x.v]
      [] x.t \in {"list", "tuple"} -> [j |-> "array", v |-> DumpAll(x.v)]
      [] x.t = "dict" -> [j |-> "object", v |-> DumpItems(x.v)]
      [] OTHER -> [j |-> "TypeError"]

\* a decoder that gives tuples for arrays
LoadArrayAsTuple(items) == PyTuple(items)
\* json.loads: an array becomes a list
LoadArray(items) == PyList(items)

\* json.loads of one JSON document
RECURSIVE loads(_)
RECURSIVE LoadAll(_)
RECURSIVE LoadItems(_)
LoadAll(docs) ==
    IF Len(docs) = 0 THEN <<>>
    ELSE <<loads(Head(docs))>> \o LoadAll(Tail(docs))
LoadItems(members) ==
    IF Len(members) = 0 THEN <<>>
    ELSE <<<<Head(members)[1], loads(Head(members)[2])>>>>
         \o LoadItems(Tail(members))
loads(doc) ==
    CASE doc.j = "null" -> PyNone
      [] doc.j = "number" -> PyInt(doc.v)
      [] doc.j = "boolean" -> PyBool(doc.v)
      [] doc.j = "string" -> PyStr(doc.v)
      [] doc.j = "array" -> LoadArray(LoadAll(doc.v))
      [] doc.j = "object" -> PyDict(LoadItems(doc.v))

\* text that is no JSON: the delimiter
Chars(str) == [j |-> "text", v |-> str]
\* SocketMessage.encode: json.dumps(self._get_dict()) + MSG_DELIM
encode(obj) == <<dumps(get_dict(obj)), Chars(MSG_DELIM)>>
\* message_str[:-1]
StripLast(message_str) == SubSeq(message_str, 1, Len(message_str) - 1)

\* ---- the three families ----
MeetingRequest(request_dict) ==
    SocketMessage(request_dict, REQUEST_FIELDS, "MeetingRequest")
ServerResponse(request_dict) ==
    SocketMessage(request_dict, RESPONSE_FIELDS, "ServerResponse")
\* P2PMessage.__init__: message is "" when the dictionary has none
P2PMessage(request_dict) ==
    LET obj == SocketMessage(request_dict, P2P_MESSAGE_FIELDS, "P2PMessage")
    IN IF HasKey(request_dict, "message") THEN obj
       ELSE [obj EXCEPT !.attrs = setattr(@, "message", PyStr(""))]
\* an object made by the constructor of a subclass
OfClass(obj, cls) == [obj EXCEPT !.cls = cls]

\* decode_message: None when the bytes are not one JSON document, else
\* MessageType(message_dict)
decode_message(message_str, MessageType) ==
    IF Len(message_str) # 1 \/ message_str[1].j \in {"text", "TypeError"}
    THEN PyNone
    ELSE LET message_dict == loads(message_str[1])
         IN CASE MessageType = "MeetingRequest" -> MeetingRequest(message_dict)
              [] MessageType = "ServerResponse" -> ServerResponse(message_dict)
              [] MessageType = "P2PMessage" -> P2PMessage(message_dict)

\* ---- the concrete message kinds, built as their constructors build them ----
Item(key, value) == <<key, value>>
PyListRequest == MeetingRequest(PyDict(<<Item("type", PyConst(LIST))>>))
PyJoinRequest(meeting_id, username) ==
    MeetingRequest(PyDict(
        <<Item("data", PyDict(<<Item("meetingID", meeting_id),
                                Item("username", username)>>)),
          Item("type", PyConst(JOIN))>>))
PyCreateMeshRequest ==
    MeetingRequest(PyDict(
        <<Item("type", PyConst(CREATE)),
          Item("data", PyDict(<<Item("meetingType", PyConst(MESH))>>))>>))
PyCreateStarRequest ==
    MeetingRequest(PyDict(
        <<Item("type", PyConst(CREATE)),
          Item("data", PyDict(<<Item("meetingType", PyConst(STAR))>>))>>))

\* resp_dict of the response constructors
RespDict(message, type, success, data) ==
    PyDict(<<Item("message", message), Item("type", PyConst(type)),
             Item("success", PyBool(success)), Item("data", data)>>)
PyListResponse(meeting_id_list) ==
    ServerResponse(RespDict(PyStr(<<"Meetings found", Len(meeting_id_list.v)>>),
                            LIST, TRUE, meeting_id_list))
PyJoinStarSuccess(host_addr_port, username) ==
    ServerResponse(RespDict(PyStr("Join request successful"), JOIN, TRUE,
        PyDict(<<Item("host", host_addr_port),
                 Item("meetingType", PyConst(STAR)),
                 Item("username", username)>>)))
PyJoinMeshSuccess(host_addr_port, username, listen_p2p_port) ==
    ServerResponse(RespDict(PyStr("Join request successful"), JOIN, TRUE,
        PyDict(<<Item("host", host_addr_port),
                 Item("meetingType", PyConst(MESH)),
                 Item("username", username),
                 Item("listen_p2p_port", listen_p2p_port)>>)))
PyJoinFailure(error_msg) ==
    ServerResponse(RespDict(PyStr(<<"Join failed with error", error_msg.v>>),
                            JOIN, FALSE, PyNone))
PyCreateStarSuccess(meetingID, listen_p2p_port) ==
    ServerResponse(RespDict(PyStr("Create request successful"), CREATE, TRUE,
        PyDict(<<Item("meetingID", meetingID),
                 Item("meetingType", PyConst(STAR)),
                 Item("listen_p2p_port", listen_p2p_port)>>)))
PyCreateMeshSuccess(meetingID, listen_p2p_port) ==
    ServerResponse(RespDict(PyStr("Create request successful"), CREATE, TRUE,
        PyDict(<<Item("meetingID", meetingID),
                 Item("meetingType", PyConst(MESH)),
                 Item("listen_p2p_port", listen_p2p_port)>>)))

PyP2PText(message_str) ==
    OfClass(P2PMessage(PyDict(<<Item("message", message_str),
                                Item("type", PyConst(P2P_TEXT))>>)),
            "P2PText")
PyRegisterUsername(username) ==
    OfClass(P2PMessage(PyDict(
                <<Item("type", PyConst(P2P_REGISTER_USERNAME)),
                  Item("data", PyDict(<<Item("username", username)>>))>>)),
            "RegisterUsername")
PyRegisterPort(listen_p2p_port) ==
    OfClass(P2PMessage(PyDict(
                <<Item("type", PyConst(P2P_REGISTER_PORT)),
                  Item("data", PyDict(<<Item("listen_p2p_port",
                                             listen_p2p_port)>>))>>)),
            "RegisterPort")
PyMeshConnect(addr_ports) ==
    OfClass(P2PMessage(PyDict(
                <<Item("type", PyConst(P2P_MESH_CONNECT)),
                  Item("data", PyDict(<<Item("hosts", addr_ports)>>))>>)),
            "MeshConnect")

\* ---- is_valid ----
\* the outcome of is_valid: "True", "False", or the AttributeError it raises
Truth(b) == IF b THEN "True" ELSE "False"
\* "type(x) is t" for an attribute that may be missing
TypeIs(x, t) == IF x.t = "AttributeError" THEN "AttributeError" ELSE Truth(x.t = t)
\* "x == str" and "x in strs"
Equals(x, str) == x.t = "str" /\ x.v = str
IsIn(x, strs) ==
    IF x.t = "AttributeError" THEN "AttributeError"
    ELSE Truth(x.t = "str" /\ x.v \in strs)
\* "x is CONSTANT": the very object
IsConst(x, str) ==
    IF x.t = "AttributeError" THEN "AttributeError"
    ELSE Truth(x.t = "str" /\ x.const /\ x.v = str)
\* "a and b"
AndAlso(a, b) == IF a = "True" THEN b ELSE a

MeetingRequest_is_valid(self) ==
    LET type == getattr(self, "type")
    IN IF type.t = "AttributeError" THEN "AttributeError"
       ELSE IF Equals(type, LIST) THEN "True"
       ELSE IF Equals(type, JOIN)
       THEN TypeIs(getattr(getattr(self, "data"), "meetingID"), "int")
       ELSE IF Equals(type, CREATE)
       THEN IsIn(getattr(getattr(self, "data"), "meetingType"), MEETING_TYPES)
       ELSE "False"

ServerResponse_is_valid(self) ==
    LET success == getattr(self, "success")
        type == getattr(self, "type")
    IN IF success.t = "AttributeError" THEN "AttributeError"
       ELSE IF success.t # "bool" THEN "False"
       ELSE IF type.t = "AttributeError" THEN "AttributeError"
       ELSE IF Equals(type, LIST) THEN TypeIs(getattr(self, "data"), "list")
       ELSE IF Equals(type, JOIN) THEN "True"
       ELSE IF Equals(type, CREATE) THEN "True"
       ELSE "False"

P2PMessage_is_valid(self) == IsIn(getattr(self, "type"), P2P_MESSAGE_TYPES)
P2PText_is_valid(self) ==
    AndAlso(IsConst(getattr(self, "type"), P2P_TEXT),
            TypeIs(getattr(self, "message"), "str"))
RegisterUsername_is_valid(self) ==
    AndAlso(P2PMessage_is_valid(self),
            TypeIs(getattr(getattr(self, "data"), "username"), "str"))
RegisterPort_is_valid(self) ==
    AndAlso(P2PMessage_is_valid(self),
            TypeIs(getattr(getattr(self, "data"), "listen_p2p_port"), "int"))
MeshConnect_is_valid(self) ==
    AndAlso(P2PMessage_is_valid(self),
            TypeIs(getattr(getattr(self, "data"), "hosts"), "list"))

\* is_valid of an object, by its class; None has no such method
is_valid(self) ==
    IF self.t # "SocketMessage" THEN "AttributeError"
    ELSE CASE self.cls = "MeetingRequest" -> MeetingRequest_is_valid(self)
           [] self.cls = "ServerResponse" -> ServerResponse_is_valid(self)
           [] self.cls = "P2PMessage" -> P2PMessage_is_valid(self)
           [] self.cls = "P2PText" -> P2PText_is_valid(self)
           [] self.cls = "RegisterUsername" -> RegisterUsername_is_valid(self)
           [] self.cls = "RegisterPort" -> RegisterPort_is_valid(self)
           [] self.cls = "MeshConnect" -> MeshConnect_is_valid(self)
           [] OTHER -> "False"

\* ---- the messages tried ----
\* a message kind and the arguments of its constructor: two ints, a string
\* and a list of ints, each used where the kind has such an argument
Input(kind, n, p, str, list) ==
    [kind |-> kind, n |-> n, p |-> p, str |-> str, list |-> list]
NoInput == Input("none", 0, 0, "", <<>>)
CodecInts == {0, 1}
CodecPorts == {0, DEFAULT_P2P_PORT}
CodecStrs == {"", "alice", "a;b"}
CodecLists == UNION {[1..k -> CodecInts] : k \in 0..MaxListLen}
CodecInputs ==
    {Input(k, 0, 0, "", <<>>) :
        k \in {"ListRequest", "CreateStarRequest", "CreateMeshRequest"}}
    \cup {Input("JoinRequest", n, 0, str, <<>>) :
             n \in CodecInts, str \in CodecStrs}
    \cup {Input(k, 0, 0, "", list) :
             k \in {"ListResponse", "MeshConnect"}, list \in CodecLists}
    \cup {Input("JoinStarSuccess", 0, p, str, <<>>) :
             p \in CodecPorts, str \in CodecStrs}
    \cup {Input("JoinMeshSuccess", n, p, str, <<>>) :
             n \in CodecPorts, p \in CodecPorts, str \in CodecStrs}
    \cup {Input(k, n, p, "", <<>>) :
             k \in {"CreateStarSuccess", "CreateMeshSuccess"},
             n \in CodecInts, p \in CodecPorts}
    \cup {Input(k, 0, 0, str, <<>>) :
             k \in {"JoinFailure", "P2PText", "RegisterUsername"},
             str \in CodecStrs}
    \cup {Input("RegisterPort", 0, p, "", <<>>) : p \in CodecPorts}

\* the address of a host in an (address, port) tuple
AddrPort(port) == PyTuple(<<PyStr("10.0.0.1"), PyInt(port)>>)

\* the message of an input
Constructed(in) ==
    CASE in.kind = "ListRequest" -> PyListRequest
      [] in.kind = "JoinRequest" -> PyJoinRequest(PyInt(in.n), PyStr(in.str))
      [] in.kind = "CreateStarRequest" -> PyCreateStarRequest
      [] in.kind = "CreateMeshRequest" -> PyCreateMeshRequest
      [] in.kind = "ListResponse" ->
            PyListResponse(PyList([i \in DOMAIN in.list |-> PyInt(in.list[i])]))
      [] in.kind = "JoinStarSuccess" ->
            PyJoinStarSuccess(AddrPort(in.p), PyStr(in.str))
      [] in.kind = "JoinMeshSuccess" ->
            PyJoinMeshSuccess(AddrPort(in.p), PyStr(in.str), PyInt(in.n))
      [] in.kind = "JoinFailure" -> PyJoinFailure(PyStr(in.str))
      [] in.kind = "CreateStarSuccess" ->
            PyCreateStarSuccess(PyInt(in.n), PyInt(in.p))
      [] in.kind = "CreateMeshSuccess" ->
            PyCreateMeshSuccess(PyInt(in.n), PyInt(in.p))
      [] in.kind = "P2PText" -> PyP2PText(PyStr(in.str))
      [] in.kind = "RegisterUsername" -> PyRegisterUsername(PyStr(in.str))
      [] in.kind = "RegisterPort" -> PyRegisterPort(PyInt(in.p))
      [] in.kind = "MeshConnect" ->
            PyMeshConnect(PyList([i \in DOMAIN in.list |-> AddrPort(in.list[i])]))

\* the family a kind is decoded into
Family(kind) ==
    IF kind \in {"ListRequest", "JoinRequest", "CreateStarRequest",
                 "CreateMeshRequest"} THEN "MeetingRequest"
    ELSE IF kind \in {"P2PText", "RegisterUsername", "RegisterPort",
                      "MeshConnect"} THEN "P2PMessage"
    ELSE "ServerResponse"

InitCodec(inputs) ==
    /\ cin \in inputs
    /\ cphase = "start"
    /\ cmsg = PyNone
    /\ cbytes = <<>>
    /\ cdecoded = PyNone

\* the constructor of the message kind runs
CodecConstruct ==
    /\ cphase = "start"
    /\ cin.kind # "none"
    /\ cphase' = "constructed"
    /\ cmsg' = Constructed(cin)
    /\ UNCHANGED <<nonCodecVars, cin, cbytes, cdecoded>>

\* encode()
CodecEncode ==
    /\ cphase = "constructed"
    /\ cphase' = "encoded"
    /\ cbytes' = encode(cmsg)
    /\ UNCHANGED <<nonCodecVars, cin, cmsg, cdecoded>>

\* the trailing delimiter is stripped and the rest decoded into the family
CodecDecode ==
    /\ cphase = "encoded"
    /\ cphase' = "decoded"
    /\ cdecoded' = decode_message(StripLast(cbytes), Family(cin.kind))
    /\ UNCHANGED <<nonCodecVars, cin, cmsg, cbytes>>

\* ---- the encoding as a listener sees it ----
\* str.count(MSG_DELIM), for the strings tried
WithDelimiter == {"a;b"}
Count(str) == IF str \in WithDelimiter THEN 1 ELSE 0
\* json.dumps writes ";" as it is, so the text of a document holds the
\* delimiter wherever one of its strings does, and a cut leaves pieces of
\* the text that are no JSON
Fragment(doc, k) == [j |-> "text", v |-> <<doc, k>>]
\* message_str.split(MSG_DELIM) on one whole encoding whose document holds
\* the delimiter so many times: the last piece is the empty string
split(message_str, inside) ==
    [k \in 1..(inside + 2) |->
        IF k = inside + 2 THEN Chars("")
        ELSE IF inside = 0 THEN message_str[1]
        ELSE Fragment(message_str[1], k)]
\* "for message_str in message_strs": the objects handed to handle_message
RECURSIVE Handled(_, _)
Handled(pieces, MessageType) ==
    IF Len(pieces) = 0 THEN <<>>
    ELSE LET piece == Head(pieces)
             message_obj == decode_message(<<piece>>, MessageType)
         IN (IF piece.j \in {"text", "TypeError"} THEN <<>>
             ELSE IF is_valid(message_obj) = "True" THEN <<message_obj>>
             ELSE <<>>)
            \o Handled(Tail(pieces), MessageType)

\* ListenThread.listen_and_do receives the whole encoding in one read, splits
\* it and handles the pieces; the only strings of a message that are not
\* literals of the code are the str argument of its constructor
CodecListen ==
    /\ cphase = "encoded"
    /\ cphase' = "listened"
    /\ LET handled == Handled(split(cbytes, Count(cin.str)), Family(cin.kind))
       IN cdecoded' = IF Len(handled) = 1 THEN handled[1] ELSE PyNone
    /\ UNCHANGED <<nonCodecVars, cin, cmsg, cbytes>>

NextCodec ==
    \/ CodecConstruct
    \/ CodecEncode
    \/ CodecDecode
    \/ CodecListen


(***************************************************************************)
(*                          LISTEN  THREAD                                 *)
(***************************************************************************)
\* receives of one listener
MaxReceives == 2

\* ---- what a peer may put on the socket, between two delimiters ----
\* text that is no JSON; the four requests of the client; requests whose
\* type or data the schema refuses; JSON objects that lack the type or the
\* data the schema reads; JSON that is no object
WireTexts ==
    << Chars("hello"),
       dumps(get_dict(PyListRequest)),
       dumps(get_dict(PyJoinRequest(PyInt(0), PyStr("alice")))),
       dumps(get_dict(PyCreateStarRequest)),
       dumps(get_dict(PyJoinRequest(PyStr("0"), PyStr("alice")))),
       dumps(PyDict(<<Item("type", PyStr("bogus"))>>)),
       dumps(PyDict(<<>>)),
       dumps(PyDict(<<Item("type", PyStr(JOIN))>>)),
       dumps(PyDict(<<Item("type", PyStr(JOIN)),
                      Item("data", PyDict(<<Item("username", PyStr("alice"))>>))>>)),
       dumps(PyInt(5)) >>

\* One string of message_str.split(MSG_DELIM).  A frame is a text followed
\* by MSG_DELIM; the bytes of a frame may arrive in two receives.  part is
\*   "all"   the text of a frame whose delimiter is in the same receive,
\*   "head"  the first bytes of a text, cut inside the text,
\*   "tail"  the rest of such a text, followed by the delimiter,
\*   "body"  a whole text whose delimiter comes with the next receive,
\*   "delim" the empty string in front of that late delimiter.
Piece(k, part) == [k |-> k, part |-> part]
NoPiece == Piece(0, "none")
\* the texts that are long enough to be cut inside and whose parts are no
\* JSON: the text that is no JSON, and the JSON objects (a proper prefix of
\* an object lacks its closing brace, a proper suffix its opening brace)
Cuttable(k) == WireTexts[k].j \in {"text", "object"}
\* the text the listener sees in a piece
TextOf(piece) ==
    IF piece.part \in {"all", "body"} THEN WireTexts[piece.k]
    ELSE IF piece.part = "delim" THEN Chars("")
    ELSE Chars("fragment")
\* what is still to arrive of the frame that a receive ended in
Remainder(piece) ==
    IF piece.part = "head" THEN Piece(piece.k, "tail")
    ELSE IF piece.part = "body" THEN Piece(piece.k, "delim")
    ELSE NoPiece
\* the last pieces a receive may end in, for a peer whose frames may be cut
CutPieces(texts) ==
    {Piece(k, "head") : k \in {n \in texts : Cuttable(n)}}
    \cup {Piece(k, "body") : k \in texts}
\* the strings of one receive: the remainder of the frame the previous
\* receive ended in, when there is one, then at most two pieces in all
Chunks(texts, cuts, rest) ==
    LET whole == {Piece(k, "all") : k \in texts}
        ends == whole \cup (IF cuts THEN CutPieces(texts) ELSE {})
    IN IF rest # NoPiece
       THEN {<<rest>>} \cup {<<rest, p>> : p \in whole}
       ELSE {<<p>> : p \in ends} \cup {<<p, q>> : p \in whole, q \in ends}

\* json.loads succeeds on the text
IsJson(text) == text.j \notin {"text", "TypeError"}

\* MessageType(message_dict): the family's constructor iterates a dict; on
\* JSON that is no object it raises or makes an object without attributes
TypeError == [t |-> "TypeError"]
Instantiate(MessageType, message_dict) ==
    IF message_dict.t # "dict" THEN TypeError
    ELSE CASE MessageType = "MeetingRequest" -> MeetingRequest(message_dict)
           [] MessageType = "ServerResponse" -> ServerResponse(message_dict)
           [] MessageType = "P2PMessage" -> P2PMessage(message_dict)

\* what the loop body does with one text: "skip" (empty, or not JSON),
\* "invalid" (the message is printed as invalid), "handle" (handle_message
\* is called inside try/except), or "raise" (the constructor or is_valid
\* raises, outside any try)
FrameOutcome(MessageType, text) ==
    IF ~IsJson(text) THEN "skip"
    ELSE LET valid == is_valid(Instantiate(MessageType, loads(text)))
         IN IF valid = "True" THEN "handle"
            ELSE IF valid = "False" THEN "invalid"
            ELSE "raise"

\* an exception of handle_message that leaves the loop
HandlerExceptionEscapes == FALSE
\* "try: self.handle_message(message_obj) except Exception": the exception
\* is printed and the loop goes on
HandlerExceptionCaught == TRUE

\* An environment of a listener: the family it decodes into, whether it was
\* made with a time limit, whether its handler may call stop() on it and
\* close its socket (as remove_user does), whether the owner may call
\* stop(), what the peer does to the connection, whether the handler may
\* raise, whether the peer's frames may arrive cut in two, and the texts the
\* peer sends.
ListenEnvironment(MessageType, timer, handlerStops, ownerStops, peer,
                  handlerRaises, cuts, texts) ==
    [MessageType |-> MessageType, timer |-> timer,
     handlerStops |-> handlerStops, ownerStops |-> ownerStops, peer |-> peer,
     handlerRaises |-> handlerRaises, cuts |-> cuts, texts |-> texts]
NoListener == ListenEnvironment("none", FALSE, FALSE, FALSE, {}, FALSE, FALSE, {})
\* a listener of the directory: every text, frames uncut, a handler that
\* does not raise
ListenEnvironments ==
    {ListenEnvironment("MeetingRequest", timer, hs, os, {"close", "reset"},
                       FALSE, FALSE, DOMAIN WireTexts) :
        timer \in BOOLEAN, hs \in BOOLEAN, os \in BOOLEAN}
\* the texts of the runs in which frames are cut or the handler raises: no
\* JSON, LIST, JOIN, the empty object
FewTexts == {1, 2, 3, 7}
\* listeners of the directory whose handler may raise and whose peer's
\* frames may be cut
HardListenEnvironments ==
    {ListenEnvironment("MeetingRequest", timer, FALSE, os, {"close", "reset"},
                       raises, cuts, FewTexts) :
        timer \in BOOLEAN, os \in BOOLEAN, raises \in BOOLEAN, cuts \in BOOLEAN}

\* history: the receives that returned bytes, the calls of the handler, the
\* calls of on_close, the listener's own calls of safe_shutdown_close, the
\* state of the socket when on_close was called, the strings of the last
\* receive and the pieces of it handed to the handler, what the last step of
\* the loop body did, whether the handler ever raised, and where the loop
\* was when the flag was cleared
NoListenHistory ==
    [receives |-> 0, handled |-> 0, on_close |-> 0, shutdowns |-> 0,
     sockAtClose |-> "none", chunk |-> <<>>, calls |-> <<>>, last |-> "none",
     raised |-> FALSE, stopAt |-> "none"]

\* ListenThread.__init__ and start()
InitListen(envs) ==
    /\ lenv \in envs
    /\ lsock = "open"
    /\ lpos = IF lenv.MessageType = "none" THEN "off" ELSE "test"
    /\ keep_alive = TRUE
    /\ expired = FALSE
    /\ inflight = NoPiece
    /\ message_strs = <<>>
    /\ lhist = NoListenHistory

\* safe_shutdown_close: the socket is shut down and closed, and nothing is
\* raised when it already was
safe_shutdown_close(st) == "closed"

\* on_close is called and listen_and_do returns
Returned(h, st) ==
    [h EXCEPT !.on_close = @ + 1, !.sockAtClose = st, !.last = "none"]

\* the end of listen_and_do after the while loop: the socket is closed and
\* on_close is called
AfterLoop(h) ==
    /\ lsock' = safe_shutdown_close(lsock)
    /\ lhist' = Returned([h EXCEPT !.shutdowns = @ + 1], safe_shutdown_close(lsock))
    /\ lpos' = "returned"
    /\ message_strs' = <<>>

\* "while self.keep_alive": the loop goes on to recv, or is left; the
\* strings of the last receive are history no longer
ListenTest ==
    /\ lpos = "test"
    /\ LET h == [lhist EXCEPT !.last = "none", !.chunk = <<>>, !.calls = <<>>]
       IN IF keep_alive
          THEN /\ lpos' = "recv"
               /\ lhist' = h
               /\ UNCHANGED <<lsock, message_strs>>
          ELSE AfterLoop(h)
    /\ UNCHANGED <<nonListenVars, lenv, keep_alive, expired, inflight>>

\* the time limit of the listener passes
TimeExpires ==
    /\ lenv.timer
    /\ ~expired
    /\ lpos \in {"test", "recv", "split"}
    /\ expired' = TRUE
    /\ UNCHANGED <<nonListenVars, lenv, lsock, lpos, keep_alive, inflight,
                   message_strs, lhist>>

\* ListenThread.time_exceeded
time_exceeded == lenv.timer /\ expired

\* recv returns bytes: on an expired timer the loop is left; else the bytes
\* are split on MSG_DELIM
ListenReceive(chunk) ==
    /\ lpos = "recv"
    /\ lsock = "open"
    /\ lhist.receives < MaxReceives
    /\ chunk \in Chunks(lenv.texts, lenv.cuts, inflight)
    /\ inflight' = Remainder(chunk[Len(chunk)])
    /\ LET h == [lhist EXCEPT !.receives = @ + 1, !.chunk = chunk,
                              !.calls = <<>>, !.last = "none"]
       IN IF time_exceeded
          THEN AfterLoop(h)
          ELSE /\ message_strs' = chunk
               /\ lpos' = "split"
               /\ lhist' = h
               /\ lsock' = lsock
    /\ UNCHANGED <<nonListenVars, lenv, keep_alive, expired>>

\* recv raises (the connection was reset, or the socket was closed on this
\* side): on_close, return
ListenReceiveError ==
    /\ lpos = "recv"
    /\ lsock \in {"reset", "closed"}
    /\ lhist' = Returned(lhist, lsock)
    /\ lpos' = "returned"
    /\ UNCHANGED <<nonListenVars, lenv, lsock, keep_alive, expired, inflight,
                   message_strs>>

\* recv returns no bytes (the peer closed): the timer is looked at first,
\* then on_close, return
ListenReceiveEmpty ==
    /\ lpos = "recv"
    /\ lsock = "eof"
    /\ IF time_exceeded
       THEN AfterLoop(lhist)
       ELSE /\ lhist' = Returned(lhist, lsock)
            /\ lpos' = "returned"
            /\ UNCHANGED <<lsock, message_strs>>
    /\ UNCHANGED <<nonListenVars, lenv, keep_alive, expired, inflight>>

\* one turn of "for message_str in message_strs"
ListenFrame ==
    /\ lpos = "split"
    /\ message_strs # <<>>
    /\ LET piece == Head(message_strs)
           outcome == FrameOutcome(lenv.MessageType, TextOf(piece))
           last == Len(message_strs) = 1
           called == [lhist EXCEPT !.handled = @ + 1,
                                   !.calls = Append(@, piece)]
       IN IF outcome = "raise"
          THEN \* the exception ends the thread
               /\ lpos' = "raised"
               /\ message_strs' = <<>>
               /\ lhist' = [lhist EXCEPT !.last = "raise"]
               /\ UNCHANGED <<keep_alive, lsock>>
          ELSE IF outcome # "handle"
          THEN /\ message_strs' = Tail(message_strs)
               /\ lpos' = IF last THEN "test" ELSE "split"
               /\ lhist' = [lhist EXCEPT !.last = outcome]
               /\ UNCHANGED <<keep_alive, lsock>>
          ELSE \/ \* the handler returns
                  /\ message_strs' = Tail(message_strs)
                  /\ lpos' = IF last THEN "test" ELSE "split"
                  /\ \/ /\ lhist' = [called EXCEPT !.last = "handled"]
                        /\ UNCHANGED <<keep_alive, lsock>>
                     \/ /\ lenv.handlerStops
                        /\ keep_alive' = FALSE
                        /\ lsock' = safe_shutdown_close(lsock)
                        /\ lhist' = [called EXCEPT
                                       !.last = "handled",
                                       !.stopAt = IF keep_alive THEN "handler" ELSE @]
               \/ \* the handler raises
                  /\ lenv.handlerRaises
                  /\ lhist' = [called EXCEPT !.last = "handler raised",
                                             !.raised = TRUE]
                  /\ IF HandlerExceptionCaught
                     THEN /\ message_strs' = Tail(message_strs)
                          /\ lpos' = IF last THEN "test" ELSE "split"
                     ELSE /\ message_strs' = <<>>
                          /\ lpos' = "raised"
                  /\ UNCHANGED <<keep_alive, lsock>>
    /\ UNCHANGED <<nonListenVars, lenv, expired, inflight>>

\* ListenThread.stop, called by the owner of the thread
ListenStop ==
    /\ lenv.ownerStops
    /\ lpos \in {"test", "recv", "split"}
    /\ keep_alive' = FALSE
    /\ lhist' = [lhist EXCEPT !.stopAt = IF keep_alive THEN lpos ELSE @]
    /\ UNCHANGED <<nonListenVars, lenv, lsock, lpos, expired, inflight,
                   message_strs>>

\* the peer closes its end, or the connection breaks
PeerEnds(how) ==
    /\ how \in lenv.peer
    /\ lpos \in {"test", "recv", "split"}
    /\ lsock = "open"
    /\ lsock' = IF how = "close" THEN "eof" ELSE "reset"
    /\ UNCHANGED <<nonListenVars, lenv, lpos, keep_alive, expired, inflight,
                   message_strs, lhist>>

\* every string a receive can be made of
AllChunks ==
    UNION {Chunks(DOMAIN WireTexts, TRUE, rest) :
              rest \in {NoPiece} \cup {Remainder(p) : p \in CutPieces(DOMAIN WireTexts)}}

NextListen ==
    \/ ListenTest
    \/ TimeExpires
    \/ \E chunk \in AllChunks : ListenReceive(chunk)
    \/ ListenReceiveError
    \/ ListenReceiveEmpty
    \/ ListenFrame
    \/ ListenStop
    \/ \E how \in {"close", "reset"} : PeerEnds(how)

(***************************************************************************)
(*                   PER-PEER  OPERATIONS  OF  A  NODE                     *)
(***************************************************************************)
\* The operations of HostNode that take the (address, port) of a peer, called
\* with any identity, on any peer table the node can have.
MaxGiven == 2

PeerOperations ==
    {"set_p2p_port", "set_username", "get_username", "give_warning",
     "get_user_warnings", "remove_user", "direct_message"}

\* the peer table after the call
TableAfter(operation, ps, addr_port) ==
    IF operation = "set_p2p_port" THEN set_p2p_port(ps, addr_port, DEFAULT_P2P_PORT)
    ELSE IF operation = "set_username" THEN set_username(ps, addr_port, "alice")
    ELSE IF operation = "give_warning" THEN give_warning(ps, addr_port)
    ELSE IF operation = "remove_user" THEN remove_user(ps, addr_port)
    ELSE ps

\* what the call writes on sockets
SendsOf(operation, ps, addr_port) ==
    IF operation = "direct_message"
    THEN direct_message(ps, addr_port, PlainText(<<"h", "i">>))
    ELSE <<>>

PeerOpsEnvironment(addr_ports) == [addr_ports |-> addr_ports]
NoPeerOps == PeerOpsEnvironment({})
Call(operation, addr_port, known, outcome, sends, changed) ==
    [operation |-> operation, addr_port |-> addr_port, known |-> known,
     outcome |-> outcome, sends |-> sends, changed |-> changed]
NoCall == Call(None, None, TRUE, "returned", <<>>, FALSE)

InitOps(e) ==
    /\ penv = e
    /\ ptable = <<>>
    /\ pcall = NoCall

\* HostNode.add_new_peer, as the acceptor calls it for a new connection
PeerAdded(addr_port) ==
    /\ addr_port \in penv.addr_ports
    /\ ~\E i \in 1..Len(ptable) : ptable[i].key = addr_port
    /\ ptable' = add_new_peer(ptable, addr_port, DEFAULT_USERNAME)
    /\ pcall' = NoCall
    /\ UNCHANGED <<nonOpsVars, penv>>

\* one call of a per-peer operation
PeerCall(operation, addr_port) ==
    /\ addr_port \in penv.addr_ports
    /\ (operation = "give_warning" /\ InPeers(ptable, addr_port))
          => ptable[PeerSlot(ptable, addr_port)].user_warnings < MaxGiven
    /\ LET outcome == CallOutcome(operation, ptable, addr_port)
           after == IF outcome = "returned"
                    THEN TableAfter(operation, ptable, addr_port) ELSE ptable
       IN /\ ptable' = after
          /\ pcall' = Call(operation, addr_port, InPeers(ptable, addr_port), outcome,
                           IF outcome = "returned"
                           THEN SendsOf(operation, ptable, addr_port) ELSE <<>>,
                           after # ptable)
    /\ UNCHANGED <<nonOpsVars, penv>>

NextOps ==
    \/ \E addr_port \in Spokes : PeerAdded(addr_port)
    \/ \E operation \in PeerOperations, addr_port \in Spokes :
          PeerCall(operation, addr_port)

(***************************************************************************)
(*                      SHUTDOWN  OF  THE  DIRECTORY                       *)
(***************************************************************************)
\* The accept loop, the listeners of the accepted sockets, the pruning of
\* LIST and stop_server, reduced to what they do to the sockets.
\* A client socket, seen from the server, is
\*   "unborn"     not yet accepted,
\*   "open"       connected, both ends open,
\*   "peerClosed" the client has closed its end (recv returns b''),
\*   "reset"      the connection is broken: sends raise, the descriptor is
\*                still allocated,
\*   "closed"     the server has called close() on it.
\* An environment: whether a server runs, the clients that connect, and
\* whether stop_server may be called while the accept thread is between two
\* of its statements (otherwise only while it is blocked in accept()).
ShutdownEnvironment(runs, conns, races) ==
    [runs |-> runs, conns |-> conns, races |-> races]
NoShutdown == ShutdownEnvironment(FALSE, {}, FALSE)

InitStop(e) ==
    /\ kenv = e
    /\ connection_socket = None
    /\ keep_accepting_connections = TRUE
    /\ client_sockets = <<>>
    /\ accepted = None
    /\ csock = [c \in Conns |-> "unborn"]
    /\ request_thread = [c \in Conns |-> [state |-> "none", on_close |-> 0]]
    /\ hosted = {}
    /\ stop = [pc |-> "idle", i |-> 1]

\* socket.getpeername(): raises OSError on a closed descriptor (EBADF) and on
\* a connection that is no longer connected (ENOTCONN)
getpeername_raises(st) == st \in {"reset", "closed"}

\* safe_shutdown_close(socket): shutdown(SHUT_RDWR), then close(), any
\* exception swallowed.  When shutdown raises (the connection is not
\* connected any more) close() is not reached.
ShutdownCloseOutcomes(st) ==
    IF st = "reset" THEN {"reset", "closed"} ELSE {"closed"}

\* Server.wait_for_connections, up to listen()
ServerListen ==
    /\ kenv.runs
    /\ connection_socket = None
    /\ connection_socket' = "listening"
    /\ UNCHANGED <<nonStopVars, kenv, keep_accepting_connections, client_sockets,
                   accepted, csock, request_thread, hosted, stop>>

\* "while self.keep_accepting_connections: ... accept()" returns a socket
AcceptReturn(c) ==
    /\ connection_socket = "listening"
    /\ keep_accepting_connections
    /\ accepted = None
    /\ c \in kenv.conns
    /\ csock[c] = "unborn"
    /\ accepted' = c
    /\ csock' = [csock EXCEPT ![c] = "open"]
    /\ UNCHANGED <<nonStopVars, kenv, connection_socket, keep_accepting_connections,
                   client_sockets, request_thread, hosted, stop>>

\* "self.client_sockets.append(client_socket)", then the request thread is
\* made and started
AcceptAppend ==
    /\ accepted # None
    /\ client_sockets' = Append(client_sockets, accepted)
    /\ request_thread' = [request_thread EXCEPT ![accepted].state = "recv"]
    /\ accepted' = None
    /\ UNCHANGED <<nonStopVars, kenv, connection_socket, keep_accepting_connections,
                   csock, hosted, stop>>

\* a CREATE handled on connection c: the entry keeps c's socket
HandleCreate(c) ==
    /\ request_thread[c].state = "recv"
    /\ csock[c] = "open"
    /\ c \notin hosted
    /\ hosted' = hosted \cup {c}
    /\ UNCHANGED <<nonStopVars, kenv, connection_socket, keep_accepting_connections,
                   client_sockets, accepted, csock, request_thread, stop>>

\* the sockets a listing may prune: those whose two sends may raise
MayFail(h) == csock[h] # "open"
MustFail(h) == csock[h] \in {"reset", "closed"}

\* a LIST handled on connection c: get_listing probes the socket of every
\* entry; delete_meeting_entry shuts down and closes those whose probe failed
HandleList(c) ==
    /\ request_thread[c].state = "recv"
    /\ csock[c] = "open"
    /\ \E to_delete \in SUBSET {h \in hosted : MayFail(h)} :
          /\ {h \in hosted : MustFail(h)} \subseteq to_delete
          /\ \E after \in [to_delete -> {"reset", "closed"}] :
                /\ \A h \in to_delete : after[h] \in ShutdownCloseOutcomes("reset")
                /\ csock' = [h \in Conns |->
                                IF h \in to_delete THEN after[h]
                                ELSE IF h \in hosted /\ csock[h] = "peerClosed"
                                THEN "reset"
                                ELSE csock[h]]
          /\ hosted' = hosted \ to_delete
    /\ UNCHANGED <<nonStopVars, kenv, connection_socket, keep_accepting_connections,
                   client_sockets, accepted, request_thread, stop>>

\* the client of connection c closes its end
PeerCloses(c) ==
    /\ csock[c] = "open"
    /\ accepted # c
    /\ csock' = [csock EXCEPT ![c] = "peerClosed"]
    /\ UNCHANGED <<nonStopVars, kenv, connection_socket, keep_accepting_connections,
                   client_sockets, accepted, request_thread, hosted, stop>>

\* the listener of c, blocked in recv, reads b'' or gets an error because
\* the connection has ended: it calls on_close and returns
ListenerObserves(c) ==
    /\ request_thread[c].state = "recv"
    /\ csock[c] \in {"peerClosed", "reset", "closed"}
    /\ request_thread' = [request_thread EXCEPT
                             ![c] = [state |-> "ended", on_close |-> @.on_close + 1]]
    /\ UNCHANGED <<nonStopVars, kenv, connection_socket, keep_accepting_connections,
                   client_sockets, accepted, csock, hosted, stop>>

\* Server.stop_server, up to the loop
StopBegin ==
    /\ kenv.runs
    /\ stop.pc = "idle"
    /\ kenv.races \/ (connection_socket = "listening" /\ accepted = None)
    /\ keep_accepting_connections' = FALSE
    /\ connection_socket' =
          IF connection_socket # None THEN "closed" ELSE connection_socket
    /\ stop' = [pc |-> "loop", i |-> 1]
    /\ UNCHANGED <<nonStopVars, kenv, client_sockets, accepted, csock,
                   request_thread, hosted>>

\* one turn of "for sock in self.client_sockets": the log line calls
\* sock.getpeername(), then safe_shutdown_close(sock)
StopLoop ==
    /\ stop.pc = "loop"
    /\ IF stop.i > Len(client_sockets)
       THEN /\ stop' = [stop EXCEPT !.pc = "returned"]
            /\ csock' = csock
       ELSE LET s == client_sockets[stop.i]
            IN IF getpeername_raises(csock[s])
               THEN /\ stop' = [stop EXCEPT !.pc = "raised"]
                    /\ csock' = csock
               ELSE /\ \E st \in ShutdownCloseOutcomes(csock[s]) :
                          csock' = [csock EXCEPT ![s] = st]
                    /\ stop' = [stop EXCEPT !.i = @ + 1]
    /\ UNCHANGED <<nonStopVars, kenv, connection_socket, keep_accepting_connections,
                   client_sockets, accepted, request_thread, hosted>>

NextStop ==
    \/ ServerListen
    \/ \E c \in Conns : AcceptReturn(c)
    \/ AcceptAppend
    \/ \E c \in Conns : HandleCreate(c)
    \/ \E c \in Conns : HandleList(c)
    \/ \E c \in Conns : PeerCloses(c)
    \/ \E c \in Conns : ListenerObserves(c)
    \/ StopBegin
    \/ StopLoop

(***************************************************************************)
(*                       ACCEPTOR  THREADS                                 *)
(***************************************************************************)
\* The thread that runs wait_for_connections, of the directory (Server) or
\* of an overlay node (HostNode and its subclasses), and the operation that
\* stops the component: Server.stop_server, HostNode.remove_all_users.

\* An environment: the component, the connections that may arrive, and
\* whether bind may fail (the port is in use).
AcceptorEnvironment(component, conns, bindFails) ==
    [component |-> component, conns |-> conns, bindFails |-> bindFails]
NoAcceptor == AcceptorEnvironment("none", {}, FALSE)
AcceptorEnvironments ==
    {AcceptorEnvironment(component, Conns, bindFails) :
        component \in {"directory", "overlay"}, bindFails \in BOOLEAN}

\* Server.__init__ / HostNode.__init__: the thread is started
InitAcc(envs) ==
    /\ aenv \in envs
    /\ apos = IF aenv.component = "none" THEN "off" ELSE "start"
    /\ asock = None
    /\ aflag = TRUE
    /\ aclients = <<>>
    /\ astop = "idle"

\* the loop condition: "while self.keep_accepting_connections" in the
\* directory, "while True" in an overlay node
LoopCondition == IF aenv.component = "directory" THEN aflag ELSE TRUE

\* accept() raised: the directory catches and logs, an overlay node has no
\* try and the thread ends
AfterAcceptError == IF aenv.component = "directory" THEN "test" ELSE "raised"

\* wait_for_connections up to listen(); bind raises when the port is in use.
\* The directory keeps the socket in self.connection_socket, an overlay node
\* in the local variable accept_socket, which nothing else can reach.
AcceptorListen ==
    /\ apos = "start"
    /\ \/ /\ apos' = "test"
          /\ asock' = IF asock = None THEN "listening" ELSE asock
       \/ /\ aenv.bindFails
          /\ apos' = "raised"
          /\ asock' = asock
    /\ UNCHANGED <<nonAccVars, aenv, aflag, aclients, astop>>

\* the loop condition is evaluated
AcceptorTest ==
    /\ apos = "test"
    /\ apos' = IF LoopCondition THEN "accept" ELSE "returned"
    /\ UNCHANGED <<nonAccVars, aenv, asock, aflag, aclients, astop>>

\* accept() returns a connection: it is appended to client_sockets, or
\* added to self.peers, and its listener is started
AcceptorAccept(c) ==
    /\ apos = "accept"
    /\ asock = "listening"
    /\ c \in aenv.conns
    /\ ~InList(c, aclients)
    /\ aclients' = Append(aclients, c)
    /\ apos' = "test"
    /\ UNCHANGED <<nonAccVars, aenv, asock, aflag, astop>>

\* accept() on a socket that was shut down and closed raises
AcceptorAcceptFails ==
    /\ apos = "accept"
    /\ asock = "closed"
    /\ apos' = AfterAcceptError
    /\ UNCHANGED <<nonAccVars, aenv, asock, aflag, aclients, astop>>

\* Server.stop_server: the flag is cleared and, when the socket exists, it
\* is shut down and closed (the loop over client_sockets is in the section
\* on the shutdown of the directory)
StopServer ==
    /\ aenv.component = "directory"
    /\ astop = "idle"
    /\ aflag' = FALSE
    /\ asock' = IF asock # None THEN safe_shutdown_close(asock) ELSE asock
    /\ astop' = "returned"
    /\ UNCHANGED <<nonAccVars, aenv, apos, aclients>>

\* HostNode.remove_all_users is called: self.connection_thread.join()
RemoveAllUsers ==
    /\ aenv.component = "overlay"
    /\ astop = "idle"
    /\ astop' = "join"
    /\ UNCHANGED <<nonAccVars, aenv, apos, asock, aflag, aclients>>

\* join() returns when the thread has ended; then "for addr_port in
\* self.peers: self.remove_user(addr_port)", whose second turn raises
\* RuntimeError (the dict changed size), and "self.peers = {}"
JoinReturns ==
    /\ astop = "join"
    /\ apos \in {"returned", "raised"}
    /\ IF aclients = <<>>
       THEN /\ astop' = "returned"
            /\ aclients' = <<>>
       ELSE /\ astop' = IF Len(aclients) = 1 THEN "returned" ELSE "raised"
            /\ aclients' = IF Len(aclients) = 1 THEN <<>> ELSE Tail(aclients)
    /\ UNCHANGED <<nonAccVars, aenv, apos, asock, aflag>>

NextAcc ==
    \/ AcceptorListen
    \/ AcceptorTest
    \/ \E c \in Conns : AcceptorAccept(c)
    \/ AcceptorAcceptFails
    \/ StopServer
    \/ RemoveAllUsers
    \/ JoinReturns

\* the threads run: the steps that wait for nothing outside the component
\* are taken when they can be
AcceptorFairness ==
    /\ WF_vars(AcceptorListen)
    /\ WF_vars(AcceptorTest)
    /\ WF_vars(AcceptorAcceptFails)
    /\ WF_vars(JoinReturns)

(***************************************************************************)
(*                          SPECIFICATIONS                                 *)
(***************************************************************************)
NoDirectory == Environment({}, {}, FALSE, FALSE)

\* Two clients send any frames and may close; requests are handled one after
\* another (each client waits for the directory to finish the previous one).
SpecDirSeq ==
    /\ InitDir(Environment({"cA", "cB"}, Frames, TRUE, FALSE))
    /\ InitCtl({})
    /\ InitStar(NoStar)
    /\ InitMesh(NoMesh)
    /\ InitCodec({NoInput})
    /\ InitListen({NoListener})
    /\ InitStop(NoShutdown)
    /\ InitOps(NoPeerOps)
    /\ InitAcc({NoAcceptor})
    /\ [][NextDir]_vars

\* Three clients that stay connected send CREATE(mesh) and JOIN frames at any
\* time: their handlers run concurrently, one thread per connection, and meet
\* in the two allocators.
AllocFrames ==
    {CreateMeshRequest, JoinRequest(0, "alice")}
NextAlloc ==
    \E c \in Conns :
        \/ \E f \in AllocFrames : Receive(c, f)
        \/ JoinLookup(c)
        \/ JoinCheck(c)
        \/ JoinAdd(c)
        \/ IdAcquire(c)
        \/ IdIncrement(c)
        \/ PortAcquire(c)
        \/ PortIncrement(c)
        \/ CreatePut(c)
        \/ Respond(c)
SpecAlloc ==
    /\ InitDir(Environment(Conns, AllocFrames, FALSE, TRUE))
    /\ InitCtl({})
    /\ InitStar(NoStar)
    /\ InitMesh(NoMesh)
    /\ InitCodec({NoInput})
    /\ InitListen({NoListener})
    /\ InitStop(NoShutdown)
    /\ InitOps(NoPeerOps)
    /\ InitAcc({NoAcceptor})
    /\ [][NextAlloc]_vars

\* Two clients send CREATE(star) and LIST frames at any time and may close
\* their connection: the handlers run concurrently, one thread per
\* connection, and meet in the registry.
RegistryFrames ==
    {CreateStarRequest, ListRequest}
NextRegistry ==
    \E c \in Conns :
        \/ \E f \in RegistryFrames : Receive(c, f)
        \/ ListScan(c)
        \/ ListDelete(c)
        \/ IdAcquire(c)
        \/ IdIncrement(c)
        \/ PortAcquire(c)
        \/ PortIncrement(c)
        \/ CreatePut(c)
        \/ Respond(c)
        \/ ClientClose(c)
SpecRegistry ==
    /\ InitDir(Environment({"cA", "cB"}, RegistryFrames, TRUE, TRUE))
    /\ InitCtl({})
    /\ InitStar(NoStar)
    /\ InitMesh(NoMesh)
    /\ InitCodec({NoInput})
    /\ InitListen({NoListener})
    /\ InitStop(NoShutdown)
    /\ InitOps(NoPeerOps)
    /\ InitAcc({NoAcceptor})
    /\ [][NextRegistry]_vars

\* Two spokes of one star meeting connect, register names, type texts and
\* leave, while the acceptor and the listeners of the host run concurrently,
\* one thread per connection.
SpecStarOverlap ==
    /\ InitDir(NoDirectory)
    /\ InitCtl({})
    /\ InitStar(StarEnvironment({"s1", "s2"}, {"s2"}, {"s1"}, TRUE))
    /\ InitMesh(NoMesh)
    /\ InitCodec({NoInput})
    /\ InitListen({NoListener})
    /\ InitStop(NoShutdown)
    /\ InitOps(NoPeerOps)
    /\ InitAcc({NoAcceptor})
    /\ [][NextStar]_vars

\* Two clients send CREATE(star) and LIST frames, one request at a time, and
\* their listeners receive what the directory writes on their sockets.
NextControl ==
    \E c \in Conns :
        \/ \E f \in RegistryFrames : Receive(c, f)
        \/ ListScan(c)
        \/ ListDelete(c)
        \/ IdAcquire(c)
        \/ IdIncrement(c)
        \/ PortAcquire(c)
        \/ PortIncrement(c)
        \/ CreatePut(c)
        \/ Respond(c)
        \/ ClientClose(c)
        \/ \E n \in 1..MaxUnread : ClientReceive(c, n)
SpecControl ==
    /\ InitDir(Environment({"cA", "cB"}, RegistryFrames, TRUE, FALSE))
    /\ InitCtl({"cA"})
    /\ InitStar(NoStar)
    /\ InitMesh(NoMesh)
    /\ InitCodec({NoInput})
    /\ InitListen({NoListener})
    /\ InitStop(NoShutdown)
    /\ InitOps(NoPeerOps)
    /\ InitAcc({NoAcceptor})
    /\ [][NextControl]_vars

\* Spokes of one star meeting connect, register names, type texts and leave;
\* the host handles one frame at a time.
SpecStarSeq ==
    /\ InitDir(NoDirectory)
    /\ InitCtl({})
    /\ InitStar(StarEnvironment(Spokes, {"s1", "s2"}, {"s1"}, FALSE))
    /\ InitMesh(NoMesh)
    /\ InitCodec({NoInput})
    /\ InitListen({NoListener})
    /\ InitStop(NoShutdown)
    /\ InitOps(NoPeerOps)
    /\ InitAcc({NoAcceptor})
    /\ [][NextStar]_vars

\* ListenThread.listen_and_do on a spoke's connection, for a frame that is
\* JSON without a "type" (or no JSON object): P2PMessage.is_valid reads
\* self.type outside any try, and the exception ends the listener's thread;
\* the socket stays open and on_close is not called
StarReceiveTypeless(p) ==
    /\ lt[p] = "recv"
    /\ link[p] = [spoke |-> "open", host |-> "open"]
    /\ MayRun(p)
    /\ FrameOutcome("P2PMessage", dumps(PyDict(<<>>))) = "raise"
    /\ lt' = [lt EXCEPT ![p] = "died"]
    /\ sevent' = StarEvent(p, "died", <<>>)
    /\ UNCHANGED <<nonStarVars, senv, peers, link, sreq, sloc, slog>>

\* The star host with three spokes, which may also send a frame without a
\* type; s1 may close its connection.
NextStarClose ==
    \/ NextStar
    \/ \E p \in Spokes : StarReceiveTypeless(p)
SpecStarClose ==
    /\ InitDir(NoDirectory)
    /\ InitCtl({})
    /\ InitStar(StarEnvironment(Spokes, {"s1", "s2"}, {"s1"}, FALSE))
    /\ InitMesh(NoMesh)
    /\ InitCodec({NoInput})
    /\ InitListen({NoListener})
    /\ InitStop(NoShutdown)
    /\ InitOps(NoPeerOps)
    /\ InitAcc({NoAcceptor})
    /\ [][NextStarClose]_vars

\* A creates a mesh meeting; B and C join it one after the other, in either
\* order, the second when the join of the first has settled.
SpecMeshSeq ==
    /\ InitDir(NoDirectory)
    /\ InitCtl({})
    /\ InitStar(NoStar)
    /\ InitMesh(MeshEnvironment({"B", "C"}, FALSE))
    /\ InitCodec({NoInput})
    /\ InitListen({NoListener})
    /\ InitStop(NoShutdown)
    /\ InitOps(NoPeerOps)
    /\ InitAcc({NoAcceptor})
    /\ [][NextMesh]_vars

\* A creates a mesh meeting; B and C join it at any time, also while the
\* join of the other has not settled.
SpecMeshOverlap ==
    /\ InitDir(NoDirectory)
    /\ InitCtl({})
    /\ InitStar(NoStar)
    /\ InitMesh(MeshEnvironment({"B", "C"}, TRUE))
    /\ InitCodec({NoInput})
    /\ InitListen({NoListener})
    /\ InitStop(NoShutdown)
    /\ InitOps(NoPeerOps)
    /\ InitAcc({NoAcceptor})
    /\ [][NextMesh]_vars

\* The acceptor thread of the directory or of an overlay node, connections
\* arriving, and the component being stopped at any time.
SpecAcceptors ==
    /\ InitDir(NoDirectory)
    /\ InitCtl({})
    /\ InitStar(NoStar)
    /\ InitMesh(NoMesh)
    /\ InitCodec({NoInput})
    /\ InitListen({NoListener})
    /\ InitStop(NoShutdown)
    /\ InitOps(NoPeerOps)
    /\ InitAcc(AcceptorEnvironments)
    /\ [][NextAcc]_vars
    /\ AcceptorFairness

\* One message of each kind, for each choice of the constructor's arguments,
\* is constructed, encoded, stripped of the delimiter and decoded.
SpecCodec ==
    /\ InitDir(NoDirectory)
    /\ InitCtl({})
    /\ InitStar(NoStar)
    /\ InitMesh(NoMesh)
    /\ InitCodec(CodecInputs)
    /\ InitListen({NoListener})
    /\ InitStop(NoShutdown)
    /\ InitOps(NoPeerOps)
    /\ InitAcc({NoAcceptor})
    /\ [][NextCodec]_vars

\* One listener of the directory on one connection: the peer sends any of
\* the texts, closes or breaks the connection; the listener may have a time
\* limit, and may be stopped by its owner or by its own handler.
SpecListen ==
    /\ InitDir(NoDirectory)
    /\ InitCtl({})
    /\ InitStar(NoStar)
    /\ InitMesh(NoMesh)
    /\ InitCodec({NoInput})
    /\ InitListen(ListenEnvironments)
    /\ InitStop(NoShutdown)
    /\ InitOps(NoPeerOps)
    /\ InitAcc({NoAcceptor})
    /\ [][NextListen]_vars

\* A listener of the directory whose handler may raise and whose peer's
\* frames may arrive cut in two.
SpecListenHard ==
    /\ InitDir(NoDirectory)
    /\ InitCtl({})
    /\ InitStar(NoStar)
    /\ InitMesh(NoMesh)
    /\ InitCodec({NoInput})
    /\ InitListen(HardListenEnvironments)
    /\ InitStop(NoShutdown)
    /\ InitOps(NoPeerOps)
    /\ InitAcc({NoAcceptor})
    /\ [][NextListen]_vars

\* A listener made with a time limit, whose thread is scheduled: the steps
\* of the thread that do not wait for the peer are taken when they can be.
\* recv returns when the connection has ended; nothing makes the peer send
\* bytes or end the connection, the owner call stop(), or the time pass.
TimedListenEnvironments == {e \in ListenEnvironments : e.timer}
ListenFairness ==
    /\ WF_vars(ListenTest)
    /\ WF_vars(ListenFrame)
    /\ WF_vars(ListenReceiveError)
    /\ WF_vars(ListenReceiveEmpty)
SpecListenTimed ==
    /\ InitDir(NoDirectory)
    /\ InitCtl({})
    /\ InitStar(NoStar)
    /\ InitMesh(NoMesh)
    /\ InitCodec({NoInput})
    /\ InitListen(TimedListenEnvironments)
    /\ InitStop(NoShutdown)
    /\ InitOps(NoPeerOps)
    /\ InitAcc({NoAcceptor})
    /\ [][NextListen]_vars
    /\ ListenFairness

\* The directory accepts up to three clients, which create meetings, list
\* them and disconnect; stop_server is called at any time at which the
\* accept thread is blocked in accept().
SpecStop ==
    /\ InitDir(NoDirectory)
    /\ InitCtl({})
    /\ InitStar(NoStar)
    /\ InitMesh(NoMesh)
    /\ InitCodec({NoInput})
    /\ InitListen({NoListener})
    /\ InitStop(ShutdownEnvironment(TRUE, Conns, FALSE))
    /\ InitOps(NoPeerOps)
    /\ InitAcc({NoAcceptor})
    /\ [][NextStop]_vars

\* Two peers are added to the table of a node, and every per-peer operation
\* is called with the identity of a peer that is in the table, was removed
\* from it, or never was in it.
SpecPeerOps ==
    /\ InitDir(NoDirectory)
    /\ InitCtl({})
    /\ InitStar(NoStar)
    /\ InitMesh(NoMesh)
    /\ InitCodec({NoInput})
    /\ InitListen({NoListener})
    /\ InitStop(NoShutdown)
    /\ InitOps(PeerOpsEnvironment({"s1", "s2"}))
    /\ InitAcc({NoAcceptor})
    /\ [][NextOps]_vars

(***************************************************************************)
(*                 PROPERTIES  OF  THE  DIRECTORY                          *)
(***************************************************************************)
NoDuplicates(s) == \A i, j \in 1..Len(s) : s[i] = s[j] => i = j
ListedIn(meeting_list, id) ==
    \E k \in 1..Len(meeting_list) : meeting_list[k][1] = id
\* the handler of connection c ends in this step
Ends(c) == pc[c] # "idle" /\ pc'[c] = "idle"

\* C1: whatever the interleaving of the threads that call new_meetingID, no
\* two calls return the same value; the same holds for new_meeting_port,
\* whose one counter serves CREATE and mesh JOIN.
C1_AllocatorsNeverRepeat ==
    /\ NoDuplicates(issued.ids)
    /\ NoDuplicates(issued.ports)

\* a CREATE holds the port lock while a mesh JOIN waits for it, after two
\* meetingIDs and a port have already been returned
C1_ThreadsMeetInAllocator ==
    \E c, d \in Conns :
        /\ c # d
        /\ pc[c] = "port_acq" /\ req[c].type = JOIN
        /\ pc[d] = "port_inc" /\ req[d].type = CREATE
        /\ portLock = d
        /\ Len(issued.ids) >= 2
        /\ Len(issued.ports) >= 1

\* the rendezvous ports of all the MeetingEntries ever created
RendezvousPorts == {meetings[i].host[2] : i \in 1..Len(meetings)}

\* C2: over the life of the directory, after any sequence of CREATE, JOIN and
\* LIST requests, no two MeetingEntries ever created (pruned or not) share a
\* meetingID or a rendezvous port, and no listen port handed to a mesh joiner
\* equals a rendezvous port or another joiner's listen port.
C2_IdentifiersNeverReused ==
    /\ \A i, j \in 1..Len(meetings) :
           i # j => /\ meetings[i].id # meetings[j].id
                    /\ meetings[i].host[2] # meetings[j].host[2]
    /\ NoDuplicates(issued.handed)
    /\ \A k \in 1..Len(issued.handed) : issued.handed[k] \notin RendezvousPorts

\* a meeting was pruned, another was created after it, and a mesh joiner
\* was handed a listen port
C2_CreatedAfterPruning ==
    /\ \E i, j \in 1..Len(meetings) : i < j /\ ~meetings[i].live
    /\ Len(issued.handed) >= 1

\* C3: a LIST response carries the pair (meetingID, "star") of every star
\* meeting in the registry whose host connection is open (so a LIST on
\* connection B after a CREATE(star) on connection A carries the new pair);
\* and for a meeting whose host connection was closed so that sends on it
\* fail, the response of the next LIST does not carry its pair and the entry
\* is no longer in the registry.
C3_ListFollowsHostConnection ==
    [][\A c \in Conns :
         (Ends(c) /\ pc[c] = "respond" /\ req[c].type = LIST) =>
            LET meeting_list == loc[c].response.data.list
            IN \A i \in 1..Len(meetings) :
                  LET e == meetings[i]
                  IN /\ (e.live /\ e.mtype = STAR /\ sock[e.sock] = "open")
                           => \E k \in 1..Len(meeting_list) :
                                  meeting_list[k] = <<e.id, STAR>>
                     /\ (e.sock \in loc[c].failing)
                           => /\ ~ListedIn(meeting_list, e.id)
                              /\ ~e.live
                              /\ ~HasMeeting(meetings', e.id)]_vars

\* connection cB has just been sent a LIST response without the pair of a
\* star meeting that was created on cA and is no longer in the registry
C3_PrunedAfterClose ==
    /\ event.kind = "answered"
    /\ event.conn = "cB"
    /\ Len(event.sends) = 1
    /\ event.sends[1].response.type = LIST
    /\ sock["cA"] = "dead"
    /\ \E i \in 1..Len(meetings) :
          /\ meetings[i].mtype = STAR
          /\ meetings[i].sock = "cA"
          /\ ~meetings[i].live
          /\ ~ListedIn(event.sends[1].response.data.list, meetings[i].id)

\* the JOIN handler of connection c changes no meeting in this step
JoinStepAddsNothing(c) ==
    (pc[c] \in {"join_look", "join_check", "join_add"} /\ pc'[c] # pc[c])
        => meetings' = meetings
\* the handler of c sends the response to a JOIN that names an existing
\* meeting and carries a username
JoinAnswered(c) ==
    /\ Ends(c) /\ pc[c] = "respond"
    /\ req[c].type = JOIN /\ req[c].hasUser
    /\ HasMeeting(meetings, req[c].mid)

\* C4 as stated: of the JOINs for one existing meeting and one username,
\* handled one after another, the first succeeds and every later one
\* returns success=false and adds nothing to the claimed usernames.
C4_FirstJoinSucceeds ==
    [][\A c \in Conns :
         /\ JoinAnswered(c) =>
               (loc[c].response.success
                   <=> <<req[c].mid, req[c].user>> \notin issued.joined)
         /\ (<<req[c].mid, req[c].user>> \in issued.joined)
               => JoinStepAddsNothing(c)]_vars

\* C4: of the JOINs for one existing meeting and one username, handled one
\* after another, the first succeeds unless the username is reserved
\* (HOST_USERNAME or DEFAULT_USERNAME, which are always refused), and every
\* later one returns success=false and adds nothing to the claimed usernames.
C4_FirstJoinSucceedsUnlessReserved ==
    [][\A c \in Conns :
         /\ JoinAnswered(c) =>
               (loc[c].response.success
                   <=> /\ <<req[c].mid, req[c].user>> \notin issued.joined
                       /\ req[c].user \notin {HOST_USERNAME, DEFAULT_USERNAME})
         /\ (\/ <<req[c].mid, req[c].user>> \in issued.joined
             \/ req[c].user \in {HOST_USERNAME, DEFAULT_USERNAME})
               => JoinStepAddsNothing(c)]_vars

\* a second JOIN of meeting 0 as "alice" has just been refused
C4_SecondJoinRefused ==
    /\ <<0, "alice">> \in issued.joined
    /\ event.kind = "answered"
    /\ Len(event.sends) = 1
    /\ event.sends[1].response = JoinFailure(UsernameTaken("alice"))
    /\ \E i \in 1..Len(meetings) :
          meetings[i].id = 0 /\ meetings[i].live

\* the JOIN that handler c is working on names no key of the registry
JoinOfMissingMeeting(c) ==
    /\ req[c].type = JOIN
    /\ ~\E i \in 1..Len(meetings) :
           meetings[i].live /\ meetings[i].id = req[c].mid

\* C5: a JOIN whose meetingID is not a key of the registry is answered with a
\* JOIN response with success=false and the not-found message, and changes
\* neither the registry (the claimed usernames included) nor a counter.
C5_JoinOfMissingMeetingFails ==
    [][\A c \in Conns :
         (JoinOfMissingMeeting(c) /\ pc'[c] # pc[c]) =>
            /\ UNCHANGED <<meetings, uniqueID, uniquePort>>
            /\ pc[c] = "join_look" =>
                  /\ pc'[c] = "respond"
                  /\ loc'[c].response.type = JOIN
                  /\ ~loc'[c].response.success
                  /\ loc'[c].response.message =
                         <<"Join failed with error", "Meeting ID not found",
                           req[c].mid>>
            /\ pc[c] = "respond" =>
                  /\ event'.kind = "answered"
                  /\ sock[c] # "dead" =>
                        event'.sends = <<ResponsePayload(c, loc[c].response)>>
                  /\ ~loc[c].response.success]_vars

\* a JOIN of meeting 0 has just been refused as not found, after meeting 0
\* was pruned and while another meeting is in the registry
C5_NotFoundSent ==
    /\ event.kind = "answered"
    /\ Len(event.sends) = 1
    /\ event.sends[1].response = JoinFailure(MeetingNotFound(0))
    /\ \E i, j \in 1..Len(meetings) :
          /\ meetings[i].id = 0 /\ ~meetings[i].live
          /\ meetings[j].live

\* C10 as stated: the handler of every frame that passed validation sends
\* exactly one Response, on the connection the frame arrived on and on no
\* other, and a frame that fails validation gets none.
C10_ExactlyOneResponse ==
    [][\A c \in Conns :
         /\ (Ends(c) /\ sock[c] = "open") =>
               /\ Len(event'.sends) = 1
               /\ event'.sends[1].kind = "response"
               /\ event'.sends[1].to = c
         /\ (pc'[c] # pc[c] /\ ~Ends(c)) =>
               \A k \in 1..Len(event'.sends) : event'.sends[k].kind # "response"
         /\ (event'.kind = "dropped") => event'.sends = <<>>]_vars

\* the pairs (meetingID, meetingType) of the probes that succeeded, in the
\* order of the probes
RECURSIVE PairsOfLive(_, _)
PairsOfLive(probed, ms) ==
    IF Len(probed) = 0 THEN <<>>
    ELSE LET id == Head(probed)[1]
             i == CHOOSE k \in 1..Len(ms) : ms[k].id = id
         IN (IF Head(probed)[2] THEN <<<<id, ms[i].mtype>>>> ELSE <<>>)
            \o PairsOfLive(Tail(probed), ms)

ReservedJoin(c) ==
    /\ pc[c] # "idle"
    /\ req[c].type = JOIN /\ req[c].hasUser
    /\ req[c].user \in {HOST_USERNAME, DEFAULT_USERNAME}
    /\ HasMeeting(meetings, req[c].mid)

\* C15: a JOIN of an existing meeting as HOST_USERNAME or DEFAULT_USERNAME is
\* answered with success=false whatever names the meeting has claimed, and
\* no step of its handler changes the registry (the claimed usernames
\* included) or the port counter.
C15_ReservedNamesAlwaysRefused ==
    [][\A c \in Conns :
         (ReservedJoin(c) /\ pc'[c] # pc[c]) =>
            /\ UNCHANGED <<meetings, uniqueID, uniquePort>>
            /\ pc[c] \in {"join_look", "join_check", "respond"}
            /\ pc[c] = "join_check" =>
                  /\ pc'[c] = "respond"
                  /\ loc'[c].response = JoinFailure(UsernameTaken(req[c].user))
            /\ pc[c] = "respond" =>
                  /\ event'.kind = "answered"
                  /\ loc[c].response.type = JOIN
                  /\ ~loc[c].response.success
                  /\ sock[c] # "dead" =>
                        event'.sends = <<ResponsePayload(c, loc[c].response)>>]_vars

\* a JOIN of meeting 0 as DEFAULT_USERNAME has just been refused, while the
\* meeting has claimed "alice" besides the host's name
C15_DefaultNameRefused ==
    /\ event.kind = "answered"
    /\ Len(event.sends) = 1
    /\ event.sends[1].response = JoinFailure(UsernameTaken(DEFAULT_USERNAME))
    /\ \E i \in 1..Len(meetings) :
          /\ meetings[i].id = 0 /\ meetings[i].live
          /\ meetings[i].usernames = {HOST_USERNAME, "alice"}

\* C16: the usernames of every entry of the registry contain HOST_USERNAME,
\* and while an entry stays in the registry no step removes a name from its
\* usernames.
C16_ClaimedNamesOnlyGrow ==
    [][/\ \A i \in LiveSlots(meetings') : HOST_USERNAME \in meetings'[i].usernames
       /\ \A i \in LiveSlots(meetings) :
             (i \in LiveSlots(meetings') /\ meetings'[i].id = meetings[i].id)
                => meetings[i].usernames \subseteq meetings'[i].usernames]_vars

\* meeting 0 has claimed two names besides the host's, and the client that
\* joined last has closed its connection
C16_TwoNamesClaimed ==
    \E i \in 1..Len(meetings) :
       /\ meetings[i].id = 0 /\ meetings[i].live
       /\ meetings[i].usernames = {HOST_USERNAME, "alice", "bob"}
       /\ \E c \in Conns : c # meetings[i].sock /\ sock[c] = "peerClosed"

\* handler c deletes slot i in this step, after the probe of its entry failed
PrunedBy(c, i) ==
    /\ pc[c] = "list_del"
    /\ req[c].type = LIST
    /\ loc[c].to_delete # <<>> /\ loc'[c].to_delete = Tail(loc[c].to_delete)
    /\ Head(loc[c].to_delete) = meetings[i].id
    /\ \E k \in 1..Len(loc[c].probed) : loc[c].probed[k] = <<meetings[i].id, FALSE>>

\* C17: every step leaves every entry of the registry in place, with its
\* meetingID, topology, host socket and host address, except the deleting
\* step of a LIST whose probe of that entry failed.
C17_OnlyFailedProbeRemoves ==
    [][\A i \in LiveSlots(meetings) :
          \/ /\ i \in LiveSlots(meetings')
             /\ meetings'[i].id = meetings[i].id
             /\ meetings'[i].mtype = meetings[i].mtype
             /\ meetings'[i].sock = meetings[i].sock
             /\ meetings'[i].host = meetings[i].host
          \/ \E c \in Conns : PrunedBy(c, i)]_vars

\* a LIST has just been answered that lists meeting 0, whose host has
\* closed its connection and which a client has joined
C17_ListedAfterHostLeft ==
    /\ event.kind = "answered"
    /\ Len(event.sends) = 1
    /\ event.sends[1].response.type = LIST
    /\ ListedIn(event.sends[1].response.data.list, 0)
    /\ \E i \in 1..Len(meetings) :
          /\ meetings[i].id = 0 /\ meetings[i].live
          /\ sock[meetings[i].sock] # "open"
          /\ "alice" \in meetings[i].usernames

\* the meetingIDs that are keys of the registry
Keys(ms) == {ms[i].id : i \in LiveSlots(ms)}

\* C18: the handler of a valid CREATE adds exactly one entry to the registry:
\* its key is the meetingID new_meetingID just returned, which was no key
\* before, its topology the requested one, its host socket the requester's
\* connection, its host address (requester's address, the port
\* new_meeting_port just returned) and its usernames {HOST_USERNAME}; the
\* response carries that meetingID and that port; every other entry stays as
\* it was, and no other step of the handler changes the registry.
C18_CreateAddsOneEntry ==
    [][\A c \in Conns :
         (pc[c] # "idle" /\ req[c].type = CREATE /\ pc'[c] # pc[c]) =>
            /\ pc[c] # "create_put" => meetings' = meetings
            /\ pc[c] = "create_put" =>
                  /\ Len(meetings') = Len(meetings) + 1
                  /\ \A i \in 1..Len(meetings) : meetings'[i] = meetings[i]
                  /\ LET e == meetings'[Len(meetings')]
                     IN /\ e.live
                        /\ e.id = issued.ids[Len(issued.ids)]
                        /\ e.id \notin Keys(meetings)
                        /\ e.mtype = req[c].mtype
                        /\ e.sock = c
                        /\ e.host = <<AddrOf(c), issued.ports[Len(issued.ports)]>>
                        /\ e.usernames = {HOST_USERNAME}
                        /\ loc'[c].response.type = CREATE
                        /\ loc'[c].response.success
                        /\ loc'[c].response.data.meetingID = e.id
                        /\ loc'[c].response.data.meetingType = e.mtype
                        /\ loc'[c].response.data.listen_p2p_port = e.host[2]
            /\ pc[c] = "respond" =>
                  /\ event'.kind = "answered"
                  /\ sock[c] # "dead" =>
                        event'.sends = <<ResponsePayload(c, loc[c].response)>>
                  /\ \E i \in LiveSlots(meetings) :
                        /\ meetings[i].id = loc[c].response.data.meetingID
                        /\ meetings[i].host[2] = loc[c].response.data.listen_p2p_port
                        /\ meetings[i].sock = c]_vars

\* the CREATE of a second meeting (a mesh, after a star) has just been
\* answered by cB with meetingID 1 and port 3101
C18_SecondMeetingCreated ==
    /\ event.kind = "answered"
    /\ event.conn = "cB"
    /\ Len(event.sends) = 1
    /\ event.sends[1].response = CreateMeshSuccess(1, DEFAULT_P2P_PORT + 1)
    /\ Len(meetings) = 2
    /\ meetings[1].mtype = STAR /\ meetings[1].live
    /\ meetings[2] = MeetingEntry(1, MESH, "cB", <<AddrOf("cB"), DEFAULT_P2P_PORT + 1>>)

\* handler c is working on a JOIN that passes the checks of the name: the
\* meeting exists and the name is neither claimed nor reserved (before the
\* name is added), or the name has been added by this handler (after)
SuccessfulJoin(c) ==
    /\ req[c].type = JOIN /\ req[c].hasUser
    /\ HasMeeting(meetings, req[c].mid)
    /\ \/ /\ pc[c] \in {"join_look", "join_check", "join_add"}
          /\ ~NameRefused(meetings[SlotOf(meetings, req[c].mid)], req[c].user)
       \/ pc[c] \in {"port_acq", "port_inc"}
       \/ pc[c] = "respond" /\ loc[c].response.success

\* C19: the handler of a successful JOIN adds the requested username, and
\* nothing else, to the usernames of the meeting it names and changes no
\* other entry.  For a star meeting no step of it changes the port counter,
\* and the response carries the host's address and port and the username.
\* For a mesh meeting exactly one step of it advances the port counter, by
\* one, and the response carries in addition the port taken there, which no
\* earlier call of new_meeting_port returned.
C19_JoinAddsOneName ==
    [][\A c \in Conns :
         (SuccessfulJoin(c) /\ pc'[c] # pc[c]) =>
            LET i == SlotOf(meetings, req[c].mid)
                e == meetings[i]
            IN /\ uniqueID' = uniqueID
               /\ pc[c] = "join_add" =>
                     /\ req[c].user \notin e.usernames
                     /\ meetings' = [meetings EXCEPT
                           ![i] = [e EXCEPT !.usernames = e.usernames \cup {req[c].user}]]
               /\ pc[c] # "join_add" => meetings' = meetings
               /\ pc[c] = "port_inc" =>
                     /\ e.mtype = MESH
                     /\ uniquePort' = uniquePort + 1
                     /\ loc[c].port = uniquePort
                     /\ \A k \in 1..Len(issued.ports) : issued.ports[k] # loc[c].port
               /\ pc[c] # "port_inc" => uniquePort' = uniquePort
               /\ pc[c] = "join_add" =>
                     pc'[c] = IF e.mtype = STAR THEN "respond" ELSE "port_acq"
               /\ pc[c] = "port_acq" => pc'[c] = "port_inc"
               /\ pc[c] = "port_inc" => pc'[c] = "respond"
               /\ pc[c] = "respond" =>
                     /\ event'.kind = "answered"
                     /\ sock[c] # "dead" =>
                           event'.sends = <<ResponsePayload(c, loc[c].response)>>
                     /\ req[c].user \in e.usernames
                     /\ loc[c].response =
                           IF e.mtype = STAR
                           THEN JoinStarSuccess(e.host, req[c].user)
                           ELSE JoinMeshSuccess(e.host, req[c].user, uniquePort - 1)]_vars

\* a JOIN of the mesh meeting 0 as "bob" has just been answered with the
\* third port of the counter, while the star meeting 1 is in the registry
C19_MeshJoinGotFreshPort ==
    /\ event.kind = "answered"
    /\ Len(event.sends) = 1
    /\ event.sends[1].response.type = JOIN
    /\ event.sends[1].response.success
    /\ event.sends[1].response.data.meetingType = MESH
    /\ event.sends[1].response.data.username = "bob"
    /\ event.sends[1].response.data.listen_p2p_port = DEFAULT_P2P_PORT + 2
    /\ Len(meetings) = 2
    /\ meetings[1].id = 0 /\ meetings[1].mtype = MESH
    /\ meetings[1].usernames = {HOST_USERNAME, "bob"}
    /\ meetings[2].live /\ meetings[2].mtype = STAR
    /\ meetings[2].usernames = {HOST_USERNAME}

\* the handler of c answers a LIST in this step
ListAnswered(c) ==
    /\ pc[c] = "respond"
    /\ req[c].type = LIST
    /\ event'.kind = "answered" /\ event'.conn = c

\* the pairs of a listing are in the order in which the meetings were
\* created, each with the topology of its meeting
InCreationOrder(meeting_list) ==
    /\ \A i, j \in DOMAIN meeting_list :
          i < j => meeting_list[i][1] < meeting_list[j][1]
    /\ \A i \in DOMAIN meeting_list :
          \E k \in DOMAIN meetings :
             /\ meetings[k].id = meeting_list[i][1]
             /\ meetings[k].mtype = meeting_list[i][2]

\* the meeting created last, whether or not it is still in the registry
Newest == meetings[Len(meetings)]
\* the LIST that c handles found the meeting created last in the registry
ScannedNewest(c) ==
    /\ meetings # <<>>
    /\ \E i \in DOMAIN loc[c].probed : loc[c].probed[i][1] = Newest.id

\* C32 as stated: a LIST returns the meetings in the order of their
\* creation, and the last pair of a LIST that follows a CREATE, with no
\* CREATE in between, is the meeting that CREATE made, with its topology.
C32_NewestMeetingIsListedLast ==
    [][\A c \in Conns :
          ListAnswered(c)
            => LET meeting_list == loc[c].response.data.list
               IN /\ InCreationOrder(meeting_list)
                  /\ ScannedNewest(c)
                       => /\ meeting_list # <<>>
                          /\ meeting_list[Len(meeting_list)]
                                = <<Newest.id, Newest.mtype>>]_vars

\* C32 as amended: the same, for a meeting whose host socket took the two
\* probes of that LIST; a meeting whose probe failed is deleted and is not
\* in the listing.
C32_SurvivingNewestIsListedLast ==
    [][\A c \in Conns :
          ListAnswered(c)
            => LET meeting_list == loc[c].response.data.list
               IN /\ InCreationOrder(meeting_list)
                  /\ (ScannedNewest(c) /\ <<Newest.id, TRUE>> \in
                            {loc[c].probed[i] : i \in DOMAIN loc[c].probed})
                       => /\ meeting_list # <<>>
                          /\ meeting_list[Len(meeting_list)]
                                = <<Newest.id, Newest.mtype>>
                  /\ (ScannedNewest(c) /\ <<Newest.id, FALSE>> \in
                            {loc[c].probed[i] : i \in DOMAIN loc[c].probed})
                       => /\ \A i \in DOMAIN meeting_list :
                                meeting_list[i][1] # Newest.id
                          /\ ~Newest.live]_vars

\* a LIST is about to be answered with a star meeting and, after it, the
\* mesh meeting that was created last
C32_TwoListedNewestLast ==
    \E c \in Conns :
        /\ pc[c] = "respond"
        /\ req[c].type = LIST
        /\ Len(meetings) = 2
        /\ loc[c].response.data.kind = "list"
        /\ loc[c].response.data.list = <<<<0, STAR>>, <<1, MESH>>>>

\* the handler of c holds a successful answer to its JOIN, not yet sent
JoinGranted(c) ==
    /\ pc[c] = "respond"
    /\ req[c].type = JOIN
    /\ loc[c].response.type = JOIN
    /\ loc[c].response.success

\* C33: of two JOIN requests for the same meeting and the same username
\* that two connection threads handle at the same time, at most one is
\* answered with success.
C33_OneJoinPerNameSucceeds ==
    \A c, d \in Conns :
        (/\ c # d
         /\ req[c].mid = req[d].mid
         /\ req[c].user = req[d].user
         /\ JoinGranted(c))
          => ~JoinGranted(d)

\* the "for meetingID in self.meetings" loop of handler c has probed an
\* entry and has not ended
ScanInProgress(c) ==
    /\ pc[c] = "list_scan"
    /\ loc[c].probed # <<>>

\* C34: while the LIST scan of one connection thread is in progress no
\* other thread inserts a key into the registry (CREATE) or deletes one
\* from it (the deletions of another LIST).
C34_RegistryFixedDuringScan ==
    [][\A c \in Conns :
          (ScanInProgress(c) /\ pc'[c] = pc[c] /\ loc'[c] = loc[c])
            => /\ Len(meetings') = Len(meetings)
               /\ LiveSlots(meetings') = LiveSlots(meetings)]_vars

\* C39: every response the directory writes on the control connection of a
\* client is handed to the handler of that client, whatever probes the LISTs
\* handled in between wrote on that connection.
C39_ProbesDropNoResponse ==
    \A c \in DOMAIN heard : heard[c].handled = ResponsesOf(heard[c].chunk)

\* the handler of c answers a JOIN with success in this step
JoinSuccessAnswered(c) ==
    /\ JoinGranted(c)
    /\ event'.kind = "answered" /\ event'.conn = c

MidHandler(p) == lt[p] \in {"handle", "bcast", "check"}

\* C7: a spoke that sends three TEXTs with a disallowed substring is sent the
\* private warnings numbered 1, 2, 3 in that order, then the farewell, and
\* is then out of the peer table with its connection closed; before its third
\* offending TEXT the host does not remove it.
C7_ThreeWarningsThenRemoved ==
    \A p \in Spokes :
        LET h == slog[p]
        IN /\ h.offences <= MAX_WARNINGS
           /\ Len(h.private) <= MAX_WARNINGS + 1
           /\ \A k \in 1..Len(h.private) :
                 IF k <= MAX_WARNINGS
                 THEN h.private[k].kind = "warning" /\ h.private[k].number = k
                 ELSE h.private[k].kind = "goodbye"
           /\ (h.offences < MAX_WARNINGS /\ link[p].spoke = "open")
                 => /\ InPeers(peers, p)
                    /\ link[p].host = "open"
                    /\ Len(h.private) <= h.offences
           /\ ~MidHandler(p) =>
                 IF h.offences = MAX_WARNINGS
                 THEN /\ Len(h.private) = MAX_WARNINGS + 1
                      /\ ~InPeers(peers, p)
                      /\ link[p].host = "closed"
                 ELSE Len(h.private) = h.offences

\* s1 was warned three times, sent the farewell and removed while it was
\* still connected, and s2, warned twice, is still in the table
C7_KickedAfterThird ==
    /\ slog["s1"].offences = MAX_WARNINGS
    /\ Len(slog["s1"].private) = MAX_WARNINGS + 1
    /\ link["s1"] = [spoke |-> "open", host |-> "closed"]
    /\ ~InPeers(peers, "s1")
    /\ lt["s1"] = "ended"
    /\ slog["s2"].offences = 2
    /\ InPeers(peers, "s2")

\* the listener of p is handling a TEXT with none of the disallowed substrings
HandlingCleanText(p) ==
    /\ lt[p] \in {"handle", "bcast"}
    /\ sreq[p].type = P2P_TEXT
    /\ \A k \in 1..Len(BAD_WORDS) : ~Contains(sreq[p].message.body, BAD_WORDS[k])

\* C8: while the star host handles a TEXT with no disallowed substring, every
\* payload it writes is that text prefixed with the sender's username; when
\* the handler returns, one such payload has gone to every spoke in the peer
\* table; and the peer table, the sender's warning counter included, is
\* unchanged throughout.
C8_CleanTextReachesEverySpoke ==
    [][\A p \in Spokes :
         (/\ HandlingCleanText(p)
          /\ InPeers(peers, p)
          /\ <<lt[p], sloc[p]>> # <<lt'[p], sloc'[p]>>) =>
            LET sender == peers[PeerSlot(peers, p)]
                sends == sevent'.sends
            IN /\ peers' = peers
               /\ \A k \in 1..Len(sends) :
                     /\ sends[k].msg.type = P2P_TEXT
                     /\ sends[k].msg.message.kind = "question"
                     /\ sends[k].msg.message.user = sender.username
                     /\ sends[k].msg.message.body = sreq[p].message.body
                     /\ sends[k].to \in PeerKeys(peers)
                     /\ sends[k].to \notin sloc[p].reached
               /\ lt[p] = "handle" => (lt'[p] = "bcast" /\ sends = <<>>)
               /\ (lt[p] = "bcast" /\ lt'[p] = "bcast") =>
                     /\ Len(sends) = 1
                     /\ sloc'[p].reached = sloc[p].reached \cup {sends[1].to}
               /\ lt'[p] # "bcast" =>
                     /\ lt'[p] = "recv"
                     /\ sevent'.kind = "handled"
                     /\ sloc[p].reached = PeerKeys(peers)]_vars

\* the question of s1, registered as "alice", has just been written to the
\* last of the three spokes in the table
C8_QuestionWentToAll ==
    /\ lt["s1"] = "bcast"
    /\ InPeers(peers, "s1")
    /\ get_username(peers, "s1") = "alice"
    /\ PeerKeys(peers) = Spokes
    /\ sloc["s1"].reached = Spokes
    /\ Len(sevent.sends) = 1
    /\ sevent.sends[1].msg.message.user = "alice"

\* C29: when the connection of a peer to the node has ended and the
\* listener of that connection has nothing more to do, the peer table has
\* no entry for the peer; and the step that removes the entry of a closed
\* connection leaves the entries of all other peers as they were.
C29_ClosedPeerIsRemoved ==
    /\ [](\A p \in Spokes :
            (link[p].spoke = "closed"
               /\ lt[p] \notin {"recv", "handle", "bcast", "check", "exit"})
              => ~InPeers(peers, p))
    /\ [][\A p \in Spokes :
            (sevent'.kind = "closed" /\ sevent'.conn = p)
              => \A i \in DOMAIN peers :
                    peers[i].key # p => peers'[i] = peers[i]]_vars

BroadcastEnds(p) ==
    /\ lt[p] = "bcast"
    /\ lt'[p] # "bcast"

\* C35: a broadcast reaches every spoke that is in the peer table from the
\* start of its loop to its end, also when another thread adds a peer or
\* removes one while the loop runs.
C35_BroadcastReachesStayingSpokes ==
    [][\A p \in Spokes :
          BroadcastEnds(p)
            => \A q \in AudienceAtBroadcastStart(p) :
                  InPeers(peers, q) => q \in sloc[p].reached]_vars

\* the host has sent p the farewell and removed it
Kicked(p) ==
    /\ slog[p].private # <<>>
    /\ slog[p].private[Len(slog[p].private)] = GoodbyeText
    /\ ~InPeers(peers, p)

\* C36: once the star host has removed a peer at the warning threshold, no
\* TEXT of that peer, a frame of the receive that held its third offending
\* text included, is rendered for a broadcast, makes the host write to any
\* peer, or changes a warning counter.
C36_KickedPeerIsNotHeard ==
    /\ [](\A p \in Spokes : Kicked(p) => lt[p] \notin {"bcast", "check"})
    /\ [][\A p \in Spokes :
            (/\ Kicked(p)
             /\ lt[p] = "handle"
             /\ sreq[p].type = P2P_TEXT
             /\ lt'[p] # "handle")
               => /\ lt'[p] = "exit"
                  /\ sevent'.sends = <<>>
                  /\ peers' = peers
                  /\ slog'[p].private = slog[p].private]_vars

\* s1 was removed after its third offending text, and the clean text that
\* came in the same receive is now with the handler
C36_CleanTextAfterKick ==
    /\ Kicked("s1")
    /\ lt["s1"] = "handle"
    /\ sreq["s1"].type = P2P_TEXT
    /\ IsClean(sreq["s1"].message.body)
    /\ InPeers(peers, "s2")

\* the handler holds an offending TEXT of p that give_warning has not yet
\* counted
OffenceInHand(p) ==
    /\ lt[p] = "handle"
    /\ sreq[p].type = P2P_TEXT
    /\ ~IsClean(sreq[p].message.body)

\* C37: the warning counter of a peer in the table of a star host is the
\* number of offending TEXTs handled from that peer: 0 at first, one more for
\* each, never less and never reset by a clean text; and while the host is
\* not handling a message of that peer the counter is below MAX_WARNINGS.
C37_CounterCountsOffences ==
    /\ [](\A p \in Spokes :
            InPeers(peers, p)
              => /\ get_user_warnings(peers, p)
                      = slog[p].offences - (IF OffenceInHand(p) THEN 1 ELSE 0)
                 /\ ~MidHandler(p) => get_user_warnings(peers, p) < MAX_WARNINGS)
    /\ [][\A p \in Spokes :
            (InPeers(peers, p) /\ InPeers(peers', p))
              => /\ get_user_warnings(peers', p) >= get_user_warnings(peers, p)
                 /\ get_user_warnings(peers', p) # get_user_warnings(peers, p)
                      => /\ OffenceInHand(p)
                         /\ lt'[p] = "check"
                         /\ get_user_warnings(peers', p)
                               = get_user_warnings(peers, p) + 1]_vars

\* s2 has two warnings and the clean text it sent afterwards is being
\* broadcast
C37_CleanTextKeepsWarnings ==
    /\ InPeers(peers, "s2")
    /\ get_user_warnings(peers, "s2") = 2
    /\ lt["s2"] = "bcast"
    /\ IsClean(sreq["s2"].message.body)

(***************************************************************************)
(*                 PROPERTIES  OF  THE  MESH                               *)
(***************************************************************************)
\* the peer table of n holds the connection between n and m: the one n made
\* to m's listen port, or the one it accepted from m
HoldsConnection(n, m) ==
    \/ /\ wire[<<n, m>>].state = "open"
       /\ InPeers(mesh[n].peers, ListenKey(m))
    \/ /\ wire[<<m, n>>].state = "open"
       /\ InPeers(mesh[n].peers, EphemeralKey(m, n))

RegisteredPeers(ps) ==
    LET registered == SelectSeq(ps, LAMBDA peer_obj :
                          peer_obj.live /\ peer_obj.listen_p2p_port.isInt)
    IN [i \in DOMAIN registered |->
           [addr |-> registered[i].key.addr,
            listen |-> registered[i].listen_p2p_port]]

\* the last frame the acceptor of m put on the connection that n made
LastDown(w, n, m) == w[<<n, m>>].down[Len(w[<<n, m>>].down)]

\* C21: the MESH_CONNECT the mesh host sends to a peer it accepts lists the
\* (address, listen port) of exactly the peers that were in its table when
\* it accepted and had registered a listen port: not the new peer, and no
\* peer that has connected but not yet registered.
C21_MeshConnectListsRegisteredPeers ==
    [][\A n \in MeshNodes \ {MeshHost} :
          (wire[<<n, MeshHost>>].state = "pending"
             /\ wire'[<<n, MeshHost>>].state = "open")
            => /\ LastDown(wire', n, MeshHost).type = P2P_MESH_CONNECT
               /\ LastDown(wire', n, MeshHost).data.hosts
                      = RegisteredPeers(mesh[MeshHost].peers)]_vars

\* the connection that n made is accepted by m in this step
Accepted(n, m) ==
    wire[<<n, m>>].state = "pending" /\ wire'[<<n, m>>].state = "open"

\* C22 as stated: every mesh node, host or audience, answers each
\* connection it accepts with a MESH_CONNECT computed from its peer table
\* as it was before the new peer was added.
C22_EveryNodeSendsMeshConnect ==
    [][\A nm \in Links :
          Accepted(nm[1], nm[2])
            => /\ LastDown(wire', nm[1], nm[2]).type = P2P_MESH_CONNECT
               /\ LastDown(wire', nm[1], nm[2]).data.hosts
                      = OtherPeerAddrPorts(mesh[nm[2]].peers)]_vars

\* the peers of a table whose listen_p2p_port is truthy
WithListenPort(ps) ==
    {i \in DOMAIN ps : ps[i].live /\ Truthy(ps[i].listen_p2p_port)}

\* C22 as amended: the node that created the room answers each connection
\* it accepts with a MESH_CONNECT that has one entry for each peer with a
\* listen port of its table as it was before the new peer was added; a node
\* that joined the room answers with its
\* username and a greeting, and sends no MESH_CONNECT.
C22_OnlyHostSendsMeshConnect ==
    [][\A nm \in Links :
          Accepted(nm[1], nm[2])
            => LET n == nm[1]
                   m == nm[2]
                   down == wire'[<<n, m>>].down
                   before == mesh[m].peers
               IN IF m = MeshHost
                  THEN LET hosts == LastDown(wire', n, m).data.hosts
                       IN /\ LastDown(wire', n, m).type = P2P_MESH_CONNECT
                          /\ Len(hosts) = Cardinality(WithListenPort(before))
                          /\ {hosts[i].addr : i \in DOMAIN hosts}
                                = {before[i].key.addr : i \in WithListenPort(before)}
                          /\ InPeers(mesh'[m].peers, EphemeralKey(n, m))
                  ELSE /\ \A i \in DOMAIN down : down[i].type # P2P_MESH_CONNECT
                       /\ LastDown(wire', n, m).type = P2P_TEXT
                       /\ InPeers(mesh'[m].peers, EphemeralKey(n, m))]_vars

\* C has been told of B by the host, has connected to B, and B, a node that
\* joined, has accepted the connection and answered it
C22_AudienceAcceptedPeer ==
    /\ wire[<<"C", "B">>].state = "open"
    /\ wire[<<"C", "B">>].down # <<>>
    /\ InPeers(mesh["B"].peers, EphemeralKey("C", "B"))
    /\ wire[<<"C", "A">>].state = "open"

(***************************************************************************)
(*                 PROPERTIES  OF  THE  MESSAGES                           *)
(***************************************************************************)
\* C9: round-trip law.  For every concrete message kind the constructed
\* message is valid, and encoding it, stripping the trailing delimiter and
\* decoding it into its family gives a message whose is_valid() is true.
C9_RoundTripKeepsValid ==
    /\ cphase \in {"constructed", "encoded", "decoded"}
          => is_valid(cmsg) = "True"
    /\ cphase = "decoded" => is_valid(cdecoded) = "True"

\* a list response went through: what came back is not what went in (its
\* strings are new objects), and its data is still a list of two ids
C9_ListResponseDecoded ==
    /\ cphase = "decoded"
    /\ cin.kind = "ListResponse"
    /\ Len(cin.list) = 2
    /\ cbytes[2].v = MSG_DELIM
    /\ getattr(cmsg, "type").const
    /\ ~getattr(cdecoded, "type").const
    /\ getattr(cdecoded, "data").t = "list"
    /\ Len(getattr(cdecoded, "data").v) = 2

\* C38: the encoding of a valid message holds the delimiter only at its end,
\* so a listener that receives the whole encoding in one read and splits it
\* hands its handler the message that was sent; also when a string of the
\* message (the text of a TEXT, the username of a REGISTER_USERNAME or of a
\* JOIN) holds the delimiter character.
C38_DelimiterOnlyEndsTheFrame ==
    (cphase = "listened" /\ is_valid(cmsg) = "True")
        => /\ Count(cin.str) = 0
           /\ cdecoded # PyNone
           /\ dumps(get_dict(cdecoded)) = cbytes[1]

(***************************************************************************)
(*                 PROPERTIES  OF  THE  LISTEN  THREAD                     *)
(***************************************************************************)
\* C12 as stated: the close callback of a started listener is invoked exactly
\* once over the listener's life, on whichever path its loop ends and
\* whatever frames were received before: never twice, and not zero times
\* once the thread has ended.
C12_CloseCallbackExactlyOnce ==
    /\ lhist.on_close <= 1
    /\ lpos \in {"returned", "raised"} => lhist.on_close = 1

\* C13 as stated: a text that is not JSON, or whose message the family's
\* is_valid does not accept, is dropped: the handler is not called, nothing
\* is raised, and the listener goes on to the next text or the next receive.
C13_BadFramesAreDropped ==
    [][(lpos = "split" /\ message_strs # <<>> /\ message_strs' # message_strs
        /\ FrameOutcome(lenv.MessageType, TextOf(Head(message_strs))) # "handle")
          => /\ lhist'.handled = lhist.handled
             /\ lpos' \in {"split", "test"}
             /\ message_strs' = Tail(message_strs)]_vars

\* C23: on every path by which the receive loop of a listener ends
\* (receive error, empty read, stop flag, time limit), the listener has shut
\* down and closed its socket exactly once, and the socket is closed when
\* the close callback is called.
C23_SocketClosedBeforeCallback ==
    lpos = "returned" => /\ lhist.shutdowns = 1
                         /\ lhist.sockAtClose = "closed"

\* C24: when the handler raises on a frame, the step is the step of a
\* handler that returned: the frame was handed over, the loop goes on with
\* the remaining strings of the receive or to its next flag check, the
\* socket and the flag are untouched and the close callback is not called.
C24_HandlerFailureIsConfined ==
    [][(lhist'.handled = lhist.handled + 1 /\ lhist'.last = "handler raised")
          => /\ lpos = "split"
             /\ lhist'.calls = Append(lhist.calls, Head(message_strs))
             /\ message_strs' = Tail(message_strs)
             /\ lpos' = (IF message_strs' = <<>> THEN "test" ELSE "split")
             /\ lsock' = lsock
             /\ keep_alive' = keep_alive
             /\ lhist'.on_close = lhist.on_close
             /\ lhist'.shutdowns = lhist.shutdowns]_vars

\* the handler raised on a frame of the first receive, and a frame of the
\* second receive has been handled on the open connection
C24_HandledAfterRaise ==
    /\ lhist.raised
    /\ lhist.receives = 2
    /\ lhist.last = "handled"
    /\ lhist.handled >= 2
    /\ lsock = "open"
    /\ lhist.on_close = 0

\* the strings of a receive that are valid messages of the listener's family
ValidOf(chunk) ==
    SelectSeq(chunk, LAMBDA piece :
                 FrameOutcome(lenv.MessageType, TextOf(piece)) = "handle")

\* C25: stop() changes nothing but the flag (a second call is a step that
\* changes nothing at all); a listener that is blocked in recv when the flag is cleared
\* leaves recv only when recv returns, the valid frames of that receive are
\* all handed to the handler, and the loop then ends at its flag check and
\* does not go back to recv.
C25_StopTakesEffectAtFlagCheck ==
    [][/\ (keep_alive /\ ~keep_alive' /\ lhist'.stopAt # "handler")
            => /\ UNCHANGED <<lpos, lsock, message_strs>>
               /\ lhist' = [lhist EXCEPT !.stopAt = lpos]
       /\ lhist.stopAt = "recv"
            => /\ (lpos = "recv" /\ lhist'.receives = lhist.receives + 1)
                    => lpos' = "split"
               /\ (lpos = "split" /\ lpos' # "split")
                    => /\ lpos' = "test"
                       /\ lhist'.calls = ValidOf(lhist'.chunk)
               /\ (lpos = "test" /\ lpos' # "test")
                    => lpos' = "returned"]_vars

\* C26: the valid frames of a connection are handed to the handler in the
\* order of their arrival: every receive that returns bytes is split and
\* looked at before the next receive, and when the listener is through with
\* it the handler has been called once for each of its valid frames, in
\* their order, and for nothing else.
C26_FramesHandledInArrivalOrder ==
    [][/\ lhist'.receives = lhist.receives + 1
            => /\ lpos = "recv"
               /\ lpos' = "split"
               /\ message_strs' = lhist'.chunk
               /\ lhist'.calls = <<>>
       /\ (lpos = "split" /\ lpos' # "split")
            => lhist'.calls = ValidOf(lhist'.chunk)]_vars

\* the strings of a receive that are frames complete within it
CompleteOf(chunk) == SelectSeq(chunk, LAMBDA piece : piece.part = "all")

\* C27: when the bytes of a frame arrive in two receives, neither part is
\* handed to the handler, and the complete valid frames of the two receives
\* are all handed to it.
C27_SplitFrameIsDiscarded ==
    [][/\ (lpos = "split" /\ Head(message_strs).part # "all")
            => /\ lhist'.handled = lhist.handled
               /\ lpos' \in {"split", "test"}
       /\ (lpos = "split" /\ lpos' # "split"
              /\ CompleteOf(lhist'.chunk) # lhist'.chunk)
            => lhist'.calls = ValidOf(CompleteOf(lhist'.chunk))]_vars

\* C30: once the time limit of a listener has passed, the loop is
\* eventually left and the socket closed, whether or not the peer sends
\* anything more.
C30_TimeLimitEndsListener ==
    (lenv.timer /\ expired) ~> (lpos = "returned" /\ lsock = "closed")

(***************************************************************************)
(*                 PROPERTIES  OF  THE  SHUTDOWN                           *)
(***************************************************************************)
\* the client connections the directory has accepted
AcceptedSockets == {c \in Conns : csock[c] # "unborn"}

\* C14: once stop_server is over, the listening socket is closed and no
\* client connection the directory accepted is still open on the server's
\* side, whatever was created, listed and pruned before.
C14_StopClosesEverything ==
    stop.pc \in {"returned", "raised"} =>
        /\ connection_socket = "closed"
        /\ \A c \in AcceptedSockets : csock[c] \notin {"open", "peerClosed"}

(***************************************************************************)
(*                 PROPERTIES  OF  THE  PER-PEER  OPERATIONS               *)
(***************************************************************************)
\* C20: a per-peer operation called with an identity that is not in the
\* peer table raises nothing, sends nothing and leaves the table as it was.
C20_UnknownPeerIsNoOp ==
    (pcall.operation # None /\ ~pcall.known) =>
        /\ pcall.outcome = "returned"
        /\ pcall.sends = <<>>
        /\ ~pcall.changed

(***************************************************************************)
(*                 PROPERTIES  OF  THE  ACCEPTOR  THREADS                  *)
(***************************************************************************)
\* C28: once the directory or an overlay node is being stopped, its acceptor
\* loop eventually ends: the thread of wait_for_connections does not keep
\* running and does not stay blocked in accept.
C28_AcceptorEndsOnceStopped ==
    (astop # "idle") ~> (apos \in {"returned", "raised"})

====
